---- MODULE Spec2Model ----
(***************************************************************************)
(* Model of the in-memory observability store (ObservabilityInMemory):     *)
(* a Map<string, SpanRecord> keyed by generateId(traceId, spanId), with    *)
(* createSpan / batchCreateSpans / updateSpan / batchUpdateSpans /         *)
(* batchDeleteTraces / getTrace / getTracesPaginated, and the derived      *)
(* span status helper getSpanStatus.                                       *)
(*                                                                         *)
(* JavaScript values are encoded as follows.                               *)
(*   - strings are TLA+ strings; the two strings Null and Undefined stand  *)
(*     for the JS values null and undefined (they lie outside the          *)
(*     alphabet the identifiers are drawn from);                           *)
(*   - a Date is its integer time value;                                   *)
(*   - a nullable Date, number, array or object is None (null/undefined)   *)
(*     or Some(v).                                                         *)
(* A Map is a sequence of entries [id, record] in insertion order, which   *)
(* is the order Map.prototype.values() iterates in.                        *)
(*                                                                         *)
(* tasks is the sequence of the asynchronous calls that were started and   *)
(* have not settled (a scoring job, a batchUpdateSpans between two of its  *)
(* awaits), log the sequence of messages handed to logger.error, held the  *)
(* set of the keys whose stored object is one the caller has a reference   *)
(* to.                                                                     *)
(***************************************************************************)
EXTENDS Integers, Sequences, FiniteSets, TLC

VARIABLES collection, now, ret, tasks, log, held

vars == <<collection, now, ret, tasks, log, held>>

\* what lies outside the store and the last call: the asynchronous work in
\* flight (tasks), the logger's sink (log) and the stored objects a caller
\* holds a reference to (held)
env == <<tasks, log, held>>

(***************************************************************************)
(* Bounds of the model.                                                    *)
(***************************************************************************)
\* the clock (new Date()) runs over 0..MaxClock
MaxClock == 1
\* longest array handed to a batch operation
MaxBatch == 2

(***************************************************************************)
(* JavaScript values.                                                      *)
(***************************************************************************)
Null == "<null>"
Undefined == "<undefined>"
None == <<>>
Some(v) == <<v>>

\* ToBoolean on a string-or-null value: null, undefined and "" are falsy
Truthy(v) == v \notin {Null, Undefined, ""}

(***************************************************************************)
(* Map<string, SpanRecord> as a sequence of entries in insertion order.    *)
(***************************************************************************)
MapHas(m, id) == \E i \in DOMAIN m : m[i].id = id

MapGet(m, id) == m[CHOOSE i \in DOMAIN m : m[i].id = id].record

\* Map.set moving a key that is set again to the end
MapSet_MovesToEnd(m, id, rec) ==
    Append(SelectSeq(m, LAMBDA e : e.id # id), [id |-> id, record |-> rec])

\* Map.set: an existing key keeps its position, a new key is appended
MapSet(m, id, rec) ==
    IF MapHas(m, id)
    THEN [i \in DOMAIN m |-> IF m[i].id = id THEN [id |-> id, record |-> rec] ELSE m[i]]
    ELSE Append(m, [id |-> id, record |-> rec])

MapDelete(m, id) == SelectSeq(m, LAMBDA e : e.id # id)

\* Array.from(map.values())
MapValues(m) == [i \in DOMAIN m |-> m[i].record]

(***************************************************************************)
(* Span records.                                                           *)
(***************************************************************************)
\* fields of UpdateSpanRecord kept in the model
UpdateFields ==
    {"parentSpanId", "entityType", "entityId", "tags", "metadata",
     "error", "startedAt", "endedAt"}

\* fields of CreateSpanRecord kept in the model
CreateFields == {"traceId", "spanId"} \cup UpdateFields

\* fields of SpanRecord kept in the model
SpanFields == CreateFields \cup {"createdAt", "updatedAt"}

\* `${traceId}-${spanId}`
generateId(traceId, spanId) == traceId \o "-" \o spanId

\* derived status helper
getSpanStatus(span) ==
    IF Truthy(span.error) THEN "error"
    ELSE IF span.endedAt = None THEN "running"
    ELSE "success"

(***************************************************************************)
(* Write operations, as functions from the collection to the collection    *)
(* and the error thrown ("none" when the call returns normally).           *)
(***************************************************************************)
Outcome(m, err) == [collection |-> m, error |-> err]

\* validateCreateSpan without its traceId check
validateCreateSpan_SpanIdOnly(record) ==
    IF ~Truthy(record.spanId) THEN "OBSERVABILITY_SPAN_ID_REQUIRED" ELSE "none"

validateCreateSpan(record) ==
    IF ~Truthy(record.spanId) THEN "OBSERVABILITY_SPAN_ID_REQUIRED"
    ELSE IF ~Truthy(record.traceId) THEN "OBSERVABILITY_TRACE_ID_REQUIRED"
    ELSE "none"

\* record = span; record.createdAt = new Date(); record.updatedAt = record.createdAt
stampCreated(span, t) ==
    [f \in SpanFields |-> IF f \in {"createdAt", "updatedAt"} THEN t ELSE span[f]]

createSpan(m, span, t) ==
    LET err == validateCreateSpan(span) IN
    IF err # "none" THEN Outcome(m, err)
    ELSE Outcome(MapSet(m, generateId(span.traceId, span.spanId), stampCreated(span, t)),
                 "none")

\* for (const record of args.records) await this.createSpan(record)
RECURSIVE batchCreateSpans(_, _, _)
batchCreateSpans(m, records, t) ==
    IF records = <<>> THEN Outcome(m, "none")
    ELSE LET first == createSpan(m, Head(records), t) IN
         IF first.error # "none" THEN first
         ELSE batchCreateSpans(first.collection, Tail(records), t)

\* the spread in the wrong order: { ...params.updates, ...span, updatedAt }
mergeUpdates_KeepsUpdatedAt(span, updates, t) ==
    [f \in (DOMAIN span) \cup (DOMAIN updates) \cup {"updatedAt"} |->
        IF f = "updatedAt" THEN span[f]
        ELSE IF f \in DOMAIN updates THEN updates[f]
        ELSE span[f]]

mergeUpdates_SpanWins(span, updates, t) ==
    [f \in (DOMAIN span) \cup (DOMAIN updates) \cup {"updatedAt"} |->
        IF f = "updatedAt" THEN t
        ELSE IF f \in DOMAIN span THEN span[f]
        ELSE updates[f]]

\* { ...span, ...params.updates, updatedAt: new Date() }
mergeUpdates(span, updates, t) ==
    [f \in (DOMAIN span) \cup (DOMAIN updates) \cup {"updatedAt"} |->
        IF f = "updatedAt" THEN t
        ELSE IF f \in DOMAIN updates THEN updates[f]
        ELSE span[f]]

updateSpan(m, params, t) ==
    LET id == generateId(params.traceId, params.spanId) IN
    IF ~MapHas(m, id) THEN Outcome(m, "OBSERVABILITY_UPDATE_SPAN_NOT_FOUND")
    ELSE Outcome(MapSet(m, id, mergeUpdates(MapGet(m, id), params.updates, t)), "none")

\* for (const record of args.records) await this.updateSpan(record)
RECURSIVE batchUpdateSpans(_, _, _)
batchUpdateSpans(m, records, t) ==
    IF records = <<>> THEN Outcome(m, "none")
    ELSE LET first == updateSpan(m, Head(records), t) IN
         IF first.error # "none" THEN first
         ELSE batchUpdateSpans(first.collection, Tail(records), t)

\* the inner loop of batchDeleteTraces: delete(generateId(span)) for each span
RECURSIVE deleteSpans(_, _)
deleteSpans(m, spans) ==
    IF spans = <<>> THEN m
    ELSE deleteSpans(MapDelete(m, generateId(Head(spans).traceId, Head(spans).spanId)),
                     Tail(spans))

\* batchDeleteTraces deleting the first listed trace only
batchDeleteTraces_FirstOnly(m, traceIds) ==
    IF traceIds = <<>> THEN m
    ELSE deleteSpans(m, SelectSeq(MapValues(m), LAMBDA span : span.traceId = Head(traceIds)))

RECURSIVE batchDeleteTraces(_, _)
batchDeleteTraces(m, traceIds) ==
    IF traceIds = <<>> THEN m
    ELSE LET spans == SelectSeq(MapValues(m), LAMBDA span : span.traceId = Head(traceIds))
         IN  batchDeleteTraces(deleteSpans(m, spans), Tail(traceIds))

(***************************************************************************)
(* Read operations.                                                        *)
(***************************************************************************)
\* getTrace without its sort
sortByStartedAt_Unsorted(spans) == spans

\* Array.prototype.sort with (a, b) => a.startedAt - b.startedAt: a stable
\* sort, here by insertion of each element after the elements not after it
RECURSIVE sortByStartedAt(_)
sortByStartedAt(spans) ==
    IF spans = <<>> THEN <<>>
    ELSE LET n      == Len(spans)
             sorted == sortByStartedAt(SubSeq(spans, 1, n - 1))
             last   == spans[n]
             keep   == SelectSeq(sorted, LAMBDA a : a.startedAt <= last.startedAt)
             rest   == SelectSeq(sorted, LAMBDA a : a.startedAt > last.startedAt)
         IN  keep \o <<last>> \o rest

\* None is the null result, Some([traceId, spans]) a TraceRecord
getTrace(m, traceId) ==
    LET spans == SelectSeq(MapValues(m), LAMBDA span : span.traceId = traceId) IN
    IF Len(spans) = 0 THEN None
    ELSE Some([traceId |-> traceId, spans |-> sortByStartedAt(spans)])

\* filterForRootSpans keeping every span
filterForRootSpans_AllSpans(spans) == spans

filterForRootSpans(spans) == SelectSeq(spans, LAMBDA span : span.parentSpanId = Null)

\* filterSpansByDate with exclusive bounds
filterSpansByDate_Exclusive(spans, startDate, endDate) ==
    SelectSeq(spans, LAMBDA span :
        /\ ~(startDate # None /\ span.startedAt <= startDate[1])
        /\ ~(endDate # None /\ span.startedAt >= endDate[1]))

\* startDate / endDate are None (undefined) or Some(date)
filterSpansByDate(spans, startDate, endDate) ==
    SelectSeq(spans, LAMBDA span :
        /\ ~(startDate # None /\ span.startedAt < startDate[1])
        /\ ~(endDate # None /\ span.startedAt > endDate[1]))

\* the scalar filters kept in the model (the code treats every one alike)
ScalarFilters == {"entityType", "entityId"}

\* obj?.[key] on a nullable object
Lookup(obj, key) ==
    IF obj = None THEN Undefined
    ELSE IF key \in DOMAIN obj[1] THEN obj[1][key]
    ELSE Undefined

\* Array.prototype.includes on an array of strings
Includes(arr, v) == \E i \in DOMAIN arr : arr[i] = v

\* the status filter's own derivation of the status
derivedStatus(span) ==
    IF Truthy(span.error) THEN "error"
    ELSE IF span.endedAt = None THEN "running"
    ELSE "success"

\* the callback with filter.tags.every in place of filter.tags.some
spanPassesFilter_EveryTag(span, filter) ==
    /\ \A k \in ScalarFilters : ~(Truthy(filter[k]) /\ span[k] # filter[k])
    /\ Truthy(filter.status) => derivedStatus(span) = filter.status
    /\ (filter.tags # None /\ Len(filter.tags[1]) > 0) =>
          ~(\/ span.tags = None
            \/ ~(\A i \in DOMAIN filter.tags[1] : Includes(span.tags[1], filter.tags[1][i])))
    /\ filter.metadata # None =>
          \A key \in DOMAIN filter.metadata[1] :
              Lookup(span.metadata, key) = filter.metadata[1][key]

\* the callback keeping a span as soon as one key of filter.metadata matches
spanPassesFilter_AnyKey(span, filter) ==
    /\ \A k \in ScalarFilters : ~(Truthy(filter[k]) /\ span[k] # filter[k])
    /\ Truthy(filter.status) => derivedStatus(span) = filter.status
    /\ (filter.tags # None /\ Len(filter.tags[1]) > 0) =>
          ~(\/ span.tags = None
            \/ ~(\E i \in DOMAIN filter.tags[1] : Includes(span.tags[1], filter.tags[1][i])))
    /\ (filter.metadata # None /\ DOMAIN filter.metadata[1] # {}) =>
          \E key \in DOMAIN filter.metadata[1] :
              Lookup(span.metadata, key) = filter.metadata[1][key]

\* the callback of filterSpansByFilter: whether the span is kept
spanPassesFilter(span, filter) ==
    /\ \A k \in ScalarFilters : ~(Truthy(filter[k]) /\ span[k] # filter[k])
    /\ Truthy(filter.status) => derivedStatus(span) = filter.status
    /\ (filter.tags # None /\ Len(filter.tags[1]) > 0) =>
          ~(\/ span.tags = None
            \/ ~(\E i \in DOMAIN filter.tags[1] : Includes(span.tags[1], filter.tags[1][i])))
    /\ filter.metadata # None =>
          \A key \in DOMAIN filter.metadata[1] :
              Lookup(span.metadata, key) = filter.metadata[1][key]

filterSpansByFilter(spans, filter) ==
    SelectSeq(spans, LAMBDA span : spanPassesFilter(span, filter))

\* pagination?.page ?? 0 and pagination?.perPage ?? 10
DefaultPage == 0
DefaultPerPage == 10
Nullish(opt, default) == IF opt = None THEN default ELSE opt[1]

Min(a, b) == IF a < b THEN a ELSE b

\* Array.prototype.slice(start, end) for 0 <= start <= end
Slice(arr, start, end) == SubSeq(arr, start + 1, Min(end, Len(arr)))

\* filterSpansByPagination starting at index page, not page * perPage
filterSpansByPagination_FromPage(spans, pagination) ==
    LET page    == Nullish(pagination.page, DefaultPage)
        perPage == Nullish(pagination.perPage, DefaultPerPage)
        start   == page
        end     == start + perPage
    IN  Slice(spans, start, end)

filterSpansByPagination(spans, pagination) ==
    LET page    == Nullish(pagination.page, DefaultPage)
        perPage == Nullish(pagination.perPage, DefaultPerPage)
        start   == page * perPage
        end     == start + perPage
    IN  Slice(spans, start, end)

\* getTracesPaginated counting total after the page was cut
getTracesPaginated_TotalOfPage(m, filters, pagination) ==
    LET byFilter == filterSpansByFilter(filterForRootSpans(MapValues(m)), filters)
        byDate   == filterSpansByDate(byFilter, pagination.dateRange.start,
                                      pagination.dateRange.end)
        page     == Nullish(pagination.page, DefaultPage)
        perPage  == Nullish(pagination.perPage, DefaultPerPage)
        paged    == filterSpansByPagination(byDate, pagination)
        total    == Len(paged)
    IN  [spans      |-> paged,
         pagination |-> [total |-> total, page |-> page, perPage |-> perPage,
                         hasMore |-> page * perPage + perPage < total]]

getTracesPaginated(m, filters, pagination) ==
    LET allRootSpans            == filterForRootSpans(MapValues(m))
        filteredRootSpans       == filterSpansByFilter(allRootSpans, filters)
        startDate               == pagination.dateRange.start
        endDate                 == pagination.dateRange.end
        filteredRootSpansByDate == filterSpansByDate(filteredRootSpans, startDate, endDate)
        total                   == Len(filteredRootSpansByDate)
        page                    == Nullish(pagination.page, DefaultPage)
        perPage                 == Nullish(pagination.perPage, DefaultPerPage)
        start                   == page * perPage
        end                     == start + perPage
        paged                   == filterSpansByPagination(filteredRootSpansByDate, pagination)
    IN  [spans      |-> paged,
         pagination |-> [total |-> total, page |-> page, perPage |-> perPage,
                         hasMore |-> end < total]]

(***************************************************************************)
(* Inputs of the operations.                                               *)
(***************************************************************************)
\* (traceId, spanId) pairs: trace "t" has two spans, and <<"t", "x-s">> and
\* <<"t-x", "s">> are two pairs with one generateId
IdPairs == {<<"t", "s">>, <<"t", "x-s">>, <<"t-x", "s">>}
TraceIds == {"t", "t-x"}

Payload(parentSpanId, entityType, entityId, tags, metadata, error, startedAt, endedAt) ==
    [parentSpanId |-> parentSpanId, entityType |-> entityType, entityId |-> entityId,
     tags |-> tags, metadata |-> metadata, error |-> error,
     startedAt |-> startedAt, endedAt |-> endedAt]

\* a running root span, an ended child span of span "s", an ended root span
\* whose error is the empty string
RunningRoot ==
    Payload(Null, "agent", "weatherAgent", Some(<<"a", "b">>),
            Some([x |-> "1", y |-> "2"]), Null, 0, None)
EndedChild == Payload("s", "tool", Null, None, None, Null, 1, Some(1))
EndedRoot == Payload(Null, "tool", Null, Some(<<"c">>), Some([x |-> "2"]), "", 1, Some(1))

\* a CreateSpanRecord
CreateRecord(traceId, spanId, payload) ==
    [f \in CreateFields |->
        IF f = "traceId" THEN traceId ELSE IF f = "spanId" THEN spanId ELSE payload[f]]

\* spans of the pairs, and records whose ids are missing or empty
CreateInputs ==
    { CreateRecord("t", "s", RunningRoot), CreateRecord("t", "s", EndedRoot),
      CreateRecord("t", "x-s", EndedChild), CreateRecord("t-x", "s", EndedRoot) }
    \cup { CreateRecord(p[1], p[2], RunningRoot) :
             p \in {<<Undefined, "s">>, <<"", "s">>, <<"t", Undefined>>, <<"t", "">>,
                    <<Undefined, Undefined>>} }

\* Partial<UpdateSpanRecord>: nothing, end the span, fail it, reopen it
UpdateInputs ==
    { <<>>,
      [endedAt |-> Some(1)],
      [error |-> "boom", endedAt |-> Some(1)],
      [error |-> Null, endedAt |-> None] }

UpdateParams ==
    { [traceId |-> p[1], spanId |-> p[2], updates |-> u] : p \in IdPairs, u \in UpdateInputs }
    \cup { [traceId |-> "u", spanId |-> "s", updates |-> [endedAt |-> Some(1)]] }

\* the arrays of at most n elements of S
SeqsUpTo(S, n) == UNION { [1..k -> S] : k \in 0..n }

BatchCreateRecords ==
    { r \in CreateInputs : /\ <<r.traceId, r.spanId>> \in {<<"t-x", "s">>, <<"t", "">>}
                           /\ r.parentSpanId = Null }

BatchUpdateParams ==
    { p \in UpdateParams : /\ <<p.traceId, p.spanId>> \in {<<"t", "s">>, <<"u", "s">>}
                           /\ p.updates = [endedAt |-> Some(1)] }

Filter(entityType, status, tags, metadata) ==
    [entityType |-> entityType, entityId |-> Undefined, status |-> status,
     tags |-> tags, metadata |-> metadata]

FilterInputs ==
    { Filter(Undefined, Undefined, None, None),
      Filter("agent", Undefined, None, None),
      Filter(Undefined, "error", None, None),
      Filter(Undefined, "running", None, None),
      Filter(Undefined, "success", None, None),
      Filter("tool", "success", None, None),
      Filter(Undefined, Undefined, Some(<<"b", "c">>), None),
      Filter(Undefined, Undefined, None, Some([x |-> "1"])) }

Pagination(page, perPage, start, end) ==
    [page |-> page, perPage |-> perPage, dateRange |-> [start |-> start, end |-> end]]

PaginationInputs ==
    { Pagination(None, None, None, None),
      Pagination(Some(0), Some(1), None, None),
      Pagination(Some(1), Some(1), None, None),
      Pagination(Some(0), Some(2), None, None),
      Pagination(Some(1), None, None, None),
      Pagination(None, Some(1), Some(1), None),
      Pagination(None, None, None, Some(0)),
      Pagination(Some(0), Some(1), Some(0), Some(1)) }

(***************************************************************************)
(* Inputs of the listing: three root spans and a child span, and the       *)
(* queries put to them.                                                    *)
(***************************************************************************)
\* an ended agent root span without tags and with an empty metadata map
AgentRoot ==
    Payload(Null, "agent", "weatherAgent", None, Some(<<>>), Null, 2, Some(2))
\* a running agent root span with an empty tag list and no metadata
EmptyRoot == Payload(Null, "agent", "otherAgent", Some(<<>>), None, Null, 0, None)

QueryCreateInputs ==
    { CreateRecord("t", "s", RunningRoot), CreateRecord("t", "s", EmptyRoot),
      CreateRecord("t-x", "s", EndedRoot), CreateRecord("u", "s", AgentRoot),
      CreateRecord("u", "c", EndedChild) }

NoFilter == Filter(Undefined, Undefined, None, None)

\* filters.entityId
FilterByEntityId(filter, entityId) == [filter EXCEPT !.entityId = entityId]

ScalarFilterInputs ==
    { NoFilter,
      Filter("agent", Undefined, None, None),
      Filter("tool", Undefined, None, None),
      FilterByEntityId(NoFilter, "weatherAgent"),
      FilterByEntityId(Filter("agent", Undefined, None, None), "weatherAgent"),
      FilterByEntityId(Filter("tool", Undefined, None, None), "weatherAgent"),
      FilterByEntityId(NoFilter, ""),
      Filter(Undefined, "running", None, None),
      Filter(Undefined, "success", None, None),
      Filter("agent", "success", None, None) }

TagFilterInputs ==
    { Filter(Undefined, Undefined, Some(<<"b", "c">>), None),
      Filter(Undefined, Undefined, Some(<<"c", "d">>), None),
      Filter(Undefined, Undefined, Some(<<"d">>), None),
      Filter(Undefined, Undefined, Some(<<>>), None),
      Filter("agent", Undefined, Some(<<"b", "c">>), None),
      Filter("agent", Undefined, Some(<<"c", "d">>), None) }

MapFilterInputs ==
    { Filter(Undefined, Undefined, None, Some([x |-> "1"])),
      Filter(Undefined, Undefined, None, Some([x |-> "2"])),
      Filter(Undefined, Undefined, None, Some([x |-> "1", y |-> "2"])),
      Filter(Undefined, Undefined, None, Some([x |-> "1", y |-> "3"])),
      Filter(Undefined, Undefined, None, Some([z |-> "1"])),
      Filter(Undefined, Undefined, None, Some(<<>>)),
      Filter("agent", Undefined, None, Some([x |-> "2"])),
      Filter(Undefined, Undefined, Some(<<"a">>), Some([x |-> "1"])) }

NoPagination == Pagination(None, None, None, None)

PageInputs ==
    { Pagination(page, perPage, None, None) :
        page \in {None, Some(0), Some(1), Some(2)}, perPage \in {None, Some(1), Some(2)} }

DateRangeInputs ==
    { Pagination(None, None, start, end) :
        start \in {None, Some(0), Some(1)}, end \in {None, Some(1), Some(2)} }
    \cup { Pagination(None, None, Some(2), Some(0)), Pagination(Some(1), Some(1), Some(1), None) }

\* the arguments of getTracesPaginated
QueryInputs ==
    { [filters |-> f, pagination |-> p] :
        f \in ScalarFilterInputs \cup TagFilterInputs \cup MapFilterInputs,
        p \in {NoPagination, Pagination(Some(0), Some(1), None, None)} }
    \cup { [filters |-> f, pagination |-> p] :
             f \in {NoFilter, Filter("agent", Undefined, None, None)},
             p \in PageInputs \cup DateRangeInputs }

(***************************************************************************)
(* The state machine: one action per public method; ret is what the last   *)
(* call returned or threw.                                                 *)
(***************************************************************************)
\* args is None for a write, Some(arguments) for a read
Returned(op, args, err, value) == [op |-> op, args |-> args, error |-> err, value |-> value]

Init ==
    /\ collection = <<>>
    /\ now = 0
    /\ ret = Returned("new", None, "none", None)
    /\ tasks = <<>>
    /\ log = <<>>
    /\ held = {}

Write(op, outcome) ==
    /\ collection' = outcome.collection
    /\ ret' = Returned(op, None, outcome.error, None)
    /\ UNCHANGED <<now, env>>

CreateSpan(span) == Write("createSpan", createSpan(collection, span, now))

BatchCreateSpans(records) ==
    Write("batchCreateSpans", batchCreateSpans(collection, records, now))

UpdateSpan(params) == Write("updateSpan", updateSpan(collection, params, now))

BatchUpdateSpans(records) ==
    Write("batchUpdateSpans", batchUpdateSpans(collection, records, now))

BatchDeleteTraces(traceIds) ==
    Write("batchDeleteTraces", Outcome(batchDeleteTraces(collection, traceIds), "none"))

\* getTrace taking the spans it returns out of the collection
GetTrace_TakesSpans(traceId) ==
    /\ ret' = Returned("getTrace", Some(traceId), "none", getTrace(collection, traceId))
    /\ collection' = SelectSeq(collection, LAMBDA e : e.record.traceId # traceId)
    /\ UNCHANGED <<now, env>>

GetTrace(traceId) ==
    /\ ret' = Returned("getTrace", Some(traceId), "none", getTrace(collection, traceId))
    /\ UNCHANGED <<collection, now, env>>

GetTracesPaginated(filters, pagination) ==
    /\ ret' = Returned("getTracesPaginated",
                       Some([filters |-> filters, pagination |-> pagination]), "none",
                       getTracesPaginated(collection, filters, pagination))
    /\ UNCHANGED <<collection, now, env>>

\* time passes between calls
Tick ==
    /\ now < MaxClock
    /\ now' = now + 1
    /\ UNCHANGED <<collection, ret, env>>

DoCreateSpan == \E span \in CreateInputs : CreateSpan(span)
DoBatchCreateSpans ==
    \E records \in SeqsUpTo(BatchCreateRecords, MaxBatch) : BatchCreateSpans(records)
DoUpdateSpan == \E params \in UpdateParams : UpdateSpan(params)
DoBatchUpdateSpans ==
    \E records \in SeqsUpTo(BatchUpdateParams, MaxBatch) : BatchUpdateSpans(records)
DoBatchDeleteTraces ==
    \E traceIds \in SeqsUpTo(TraceIds, MaxBatch) : BatchDeleteTraces(traceIds)
DoGetTrace == \E traceId \in TraceIds \cup {"u"} : GetTrace(traceId)
DoGetTracesPaginated ==
    \E filters \in FilterInputs, pagination \in PaginationInputs :
        GetTracesPaginated(filters, pagination)

\* the store under its write operations, with the clock running
Next ==
    \/ DoCreateSpan
    \/ DoBatchCreateSpans
    \/ DoUpdateSpan
    \/ DoBatchUpdateSpans
    \/ DoBatchDeleteTraces
    \/ Tick

Spec == Init /\ [][Next]_vars

\* the store under its write and read operations, at one instant
NextRead ==
    \/ DoCreateSpan
    \/ DoBatchCreateSpans
    \/ DoUpdateSpan
    \/ DoBatchUpdateSpans
    \/ DoBatchDeleteTraces
    \/ DoGetTrace
    \/ DoGetTracesPaginated

SpecRead == Init /\ [][NextRead]_vars

DoCreateQuerySpan == \E span \in QueryCreateInputs : CreateSpan(span)
DoQuery == \E q \in QueryInputs : GetTracesPaginated(q.filters, q.pagination)

\* the listing over stores of up to three root spans and a child span
NextQuery ==
    \/ DoCreateQuerySpan
    \/ DoQuery

SpecQuery == Init /\ [][NextQuery]_vars

(***************************************************************************)
(* Inputs of the listing by hasChildError: two traces of a root span and   *)
(* a child span, the child of trace t having failed.                       *)
(***************************************************************************)
\* an ended child span of span "s" with an error
FailedChild == Payload("s", "tool", Null, None, None, "boom", 1, Some(1))

FamilyCreateInputs ==
    { CreateRecord("t", "s", AgentRoot), CreateRecord("t", "c", FailedChild),
      CreateRecord("u", "s", AgentRoot), CreateRecord("u", "c", EndedChild),
      CreateRecord("v", "s", EndedRoot) }

\* filters.hasChildError
FilterByHasChildError(filter, hasChildError) ==
    [k \in DOMAIN filter \cup {"hasChildError"} |->
        IF k = "hasChildError" THEN hasChildError ELSE filter[k]]

ChildErrorFilterInputs ==
    { NoFilter, Filter("agent", Undefined, None, None) }
    \cup { FilterByHasChildError(filter, hasChildError) :
             filter \in {NoFilter, Filter("agent", Undefined, None, None)},
             hasChildError \in BOOLEAN }

DoCreateFamilySpan == \E span \in FamilyCreateInputs : CreateSpan(span)
DoChildErrorQuery ==
    \E filters \in ChildErrorFilterInputs,
       pagination \in {NoPagination, Pagination(Some(0), Some(1), None, None)} :
        GetTracesPaginated(filters, pagination)

\* the listing over traces with and without a failed child span
NextChildError ==
    \/ DoCreateFamilySpan
    \/ DoChildErrorQuery

SpecChildError == Init /\ [][NextChildError]_vars

(***************************************************************************)
(* Object identity.  createSpan stores the object it was given, and the    *)
(* reads return the stored objects: held is the set of the keys whose      *)
(* stored object the caller has a reference to.  updateSpan stores a new   *)
(* object, which no caller has.                                            *)
(***************************************************************************)
\* the keys of the spans in an array
IdsOf(spans) == { generateId(spans[i].traceId, spans[i].spanId) : i \in DOMAIN spans }

\* createSpan(span), the caller keeping its reference to span
CreateSpanHeld(span) ==
    LET outcome == createSpan(collection, span, now) IN
    /\ collection' = outcome.collection
    /\ ret' = Returned("createSpan", None, outcome.error, None)
    /\ held' = IF outcome.error = "none"
               THEN held \cup {generateId(span.traceId, span.spanId)}
               ELSE held
    /\ UNCHANGED <<now, tasks, log>>

\* updateSpan(params): collection.set(id, { ...span, ...updates, updatedAt })
UpdateSpanFresh(params) ==
    LET outcome == updateSpan(collection, params, now) IN
    /\ collection' = outcome.collection
    /\ ret' = Returned("updateSpan", None, outcome.error, None)
    /\ held' = IF outcome.error = "none"
               THEN held \ {generateId(params.traceId, params.spanId)}
               ELSE held
    /\ UNCHANGED <<now, tasks, log>>

\* getTrace(traceId), the caller keeping the spans it was given
GetTraceHeld(traceId) ==
    LET trace == getTrace(collection, traceId) IN
    /\ ret' = Returned("getTrace", Some(traceId), "none", trace)
    /\ held' = IF trace = None THEN held ELSE held \cup IdsOf(trace[1].spans)
    /\ UNCHANGED <<collection, now, tasks, log>>

\* getTracesPaginated(args), the caller keeping the spans it was given
GetTracesPaginatedHeld(filters, pagination) ==
    LET result == getTracesPaginated(collection, filters, pagination) IN
    /\ ret' = Returned("getTracesPaginated",
                       Some([filters |-> filters, pagination |-> pagination]), "none", result)
    /\ held' = held \cup IdsOf(result.spans)
    /\ UNCHANGED <<collection, now, tasks, log>>

\* the fields a caller assigns to on an object it holds, and the values
CallerAssignments == { <<"entityId", "changed">>, <<"error", "boom">> }

\* the caller assigns to a field of an object it holds: span[field] = value
CallerMutates(id, field, value) ==
    /\ id \in held
    /\ collection' = MapSet(collection, id, [MapGet(collection, id) EXCEPT ![field] = value])
    /\ ret' = Returned("callerMutates", Some([id |-> id, field |-> field]), "none", None)
    /\ UNCHANGED <<now, tasks, log, held>>

DoCreateSpanHeld == \E span \in CreateInputs : CreateSpanHeld(span)
DoUpdateSpanFresh == \E params \in BatchUpdateParams : UpdateSpanFresh(params)
DoGetTraceHeld == \E traceId \in TraceIds : GetTraceHeld(traceId)
DoGetTracesPaginatedHeld ==
    \E pagination \in {NoPagination, Pagination(Some(0), Some(1), None, None)} :
        GetTracesPaginatedHeld(NoFilter, pagination)
DoCallerMutates ==
    \E id \in held, assignment \in CallerAssignments :
        CallerMutates(id, assignment[1], assignment[2])

\* the store and a caller that keeps the objects it passed in and was given
NextOwnership ==
    \/ DoCreateSpanHeld
    \/ DoUpdateSpanFresh
    \/ DoGetTraceHeld
    \/ DoGetTracesPaginatedHeld
    \/ DoCallerMutates

SpecOwnership == Init /\ [][NextOwnership]_vars

(***************************************************************************)
(* Reading page after page: getTracesPaginated called for the pages        *)
(* 0 .. MaxPage with the same filters and perPage and no write in between. *)
(***************************************************************************)
\* the last page asked for
MaxPage == 3

PageFilterInputs ==
    { NoFilter,
      Filter("agent", Undefined, None, None),
      Filter(Undefined, "running", None, None),
      FilterByEntityId(NoFilter, "weatherAgent") }

PerPageInputs == {1, 2}

\* updates that end a span and that rename its entity
PageUpdateParams ==
    { [traceId |-> p[1], spanId |-> p[2], updates |-> u] :
        p \in {<<"t", "s">>, <<"u", "s">>},
        u \in { [endedAt |-> Some(2)], [entityId |-> "otherAgent"] } }

\* the results of getTracesPaginated for page 0, 1, ..., MaxPage
listPages(m, filters, perPage) ==
    [p \in 1..(MaxPage + 1) |->
        getTracesPaginated(m, filters, Pagination(Some(p - 1), Some(perPage), None, None))]

ListPages(filters, perPage) ==
    /\ ret' = Returned("listPages", Some([filters |-> filters, perPage |-> perPage]), "none",
                       listPages(collection, filters, perPage))
    /\ UNCHANGED <<collection, now, env>>

DoUpdateQuerySpan == \E params \in PageUpdateParams : UpdateSpan(params)
DoListPages == \E filters \in PageFilterInputs, perPage \in PerPageInputs :
                   ListPages(filters, perPage)

\* the store read page after page, between creations and updates
NextPages ==
    \/ DoCreateQuerySpan
    \/ DoUpdateQuerySpan
    \/ DoListPages

SpecPages == Init /\ [][NextPages]_vars

(***************************************************************************)
(* Concurrent updates.  updateSpan has no await in its body, so a call     *)
(* reads the span and sets the merged record in one step; a                *)
(* batchUpdateSpans call runs up to its first await when it is called      *)
(* (the first record is applied) and is resumed once per await after       *)
(* that, other calls running in between.  tasks keeps every call that was  *)
(* started: its records, the index of the next one, the collection it was  *)
(* started on (base), and for each record applied the number it has in     *)
(* the order of all applications (stamps).                                 *)
(***************************************************************************)
\* most update calls started in a behaviour
MaxCalls == 2

\* updates of span (t, s) that set different and common fields, and an
\* update of a span that is not stored
ConcurrentUpdateParams ==
    { [traceId |-> "t", spanId |-> "s", updates |-> u] :
        u \in { [endedAt |-> Some(1)],
                [error |-> "boom", endedAt |-> Some(2)],
                [entityId |-> "otherAgent"] } }
    \cup { [traceId |-> "u", spanId |-> "s", updates |-> [endedAt |-> Some(1)]] }

\* the number of updates applied so far by the calls
AppliedCount(calls) ==
    Cardinality({ <<i, j>> \in (DOMAIN calls) \X (1..MaxBatch) : j \in DOMAIN calls[i].stamps })

\* a call of batchUpdateSpans or updateSpan and the position it is at
UpdateCall(op, records, next, error, settled, base, stamps) ==
    [op |-> op, records |-> records, next |-> next, error |-> error, settled |-> settled,
     base |-> base, stamps |-> stamps]

\* the span exists before the calls start
CreateSpanBeforeCalls(span) ==
    /\ tasks = <<>>
    /\ CreateSpan(span)

\* updateSpan(params) called next to the calls in flight
ConcurrentUpdateSpan(params) ==
    LET outcome == updateSpan(collection, params, now) IN
    /\ Len(tasks) < MaxCalls
    /\ collection' = outcome.collection
    /\ ret' = Returned("updateSpan", None, outcome.error, None)
    /\ tasks' = Append(tasks,
                       UpdateCall("updateSpan", <<params>>, 2, outcome.error, TRUE, collection,
                                  IF outcome.error = "none"
                                  THEN <<AppliedCount(tasks) + 1>> ELSE <<>>))
    /\ UNCHANGED <<now, log, held>>

\* batchUpdateSpans(args) is called: it returns at once for no records,
\* else it applies the first record and waits
StartBatchUpdateSpans(records) ==
    /\ Len(tasks) < MaxCalls
    /\ IF records = <<>>
       THEN /\ tasks' = Append(tasks, UpdateCall("batchUpdateSpans", records, 1, "none", TRUE,
                                                 collection, <<>>))
            /\ ret' = Returned("batchUpdateSpans", None, "none", None)
            /\ UNCHANGED collection
       ELSE LET outcome == updateSpan(collection, records[1], now) IN
            /\ collection' = outcome.collection
            /\ tasks' = Append(tasks,
                               UpdateCall("batchUpdateSpans", records, 2, outcome.error, FALSE,
                                          collection,
                                          IF outcome.error = "none"
                                          THEN <<AppliedCount(tasks) + 1>> ELSE <<>>))
            /\ UNCHANGED ret
    /\ UNCHANGED <<now, log, held>>

\* the call going on after an await without applying the record it is at
ResumeBatchUpdateSpans_SkipsRecord(i) ==
    LET call == tasks[i] IN
    /\ call.op = "batchUpdateSpans"
    /\ ~call.settled
    /\ IF call.error # "none" \/ call.next > Len(call.records)
       THEN /\ tasks' = [tasks EXCEPT ![i].settled = TRUE]
            /\ ret' = Returned("batchUpdateSpans", None, call.error, None)
            /\ UNCHANGED collection
       ELSE /\ tasks' = [tasks EXCEPT ![i].next = call.next + 1,
                                      ![i].stamps = Append(call.stamps, AppliedCount(tasks) + 1)]
            /\ UNCHANGED <<collection, ret>>
    /\ UNCHANGED <<now, log, held>>

\* the call goes on after an await: the awaited updateSpan threw and the
\* call rejects, or the loop is over and it resolves, or the next record
\* is applied and the call waits again
ResumeBatchUpdateSpans(i) ==
    LET call == tasks[i] IN
    /\ call.op = "batchUpdateSpans"
    /\ ~call.settled
    /\ IF call.error # "none" \/ call.next > Len(call.records)
       THEN /\ tasks' = [tasks EXCEPT ![i].settled = TRUE]
            /\ ret' = Returned("batchUpdateSpans", None, call.error, None)
            /\ UNCHANGED collection
       ELSE LET outcome == updateSpan(collection, call.records[call.next], now) IN
            /\ collection' = outcome.collection
            /\ tasks' = [tasks EXCEPT ![i].next = call.next + 1,
                                      ![i].error = outcome.error,
                                      ![i].stamps = IF outcome.error = "none"
                                                    THEN Append(call.stamps,
                                                                AppliedCount(tasks) + 1)
                                                    ELSE call.stamps]
            /\ UNCHANGED ret
    /\ UNCHANGED <<now, log, held>>

DoCreateSpanBeforeCalls ==
    \E span \in { CreateRecord("t", "s", RunningRoot), CreateRecord("t", "s", EndedRoot) } :
        CreateSpanBeforeCalls(span)
DoConcurrentUpdateSpan == \E params \in ConcurrentUpdateParams : ConcurrentUpdateSpan(params)
DoStartBatchUpdateSpans ==
    \E records \in SeqsUpTo(ConcurrentUpdateParams, MaxBatch) : StartBatchUpdateSpans(records)
DoResumeBatchUpdateSpans == \E i \in DOMAIN tasks : ResumeBatchUpdateSpans(i)

\* update calls on one span, interleaved at their awaits
NextConcurrent ==
    \/ DoCreateSpanBeforeCalls
    \/ DoConcurrentUpdateSpan
    \/ DoStartBatchUpdateSpans
    \/ DoResumeBatchUpdateSpans

SpecConcurrent == Init /\ [][NextConcurrent]_vars

(***************************************************************************)
(* The query codec: serializeTracesParams and parseTracesQueryParams.      *)
(*                                                                         *)
(* A TracesPaginatedArg is a function whose domain is the set of its       *)
(* defined keys (an undefined field is absent): numbers and Dates are      *)
(* integers, booleans are TRUE / FALSE, tags is a sequence of strings,     *)
(* metadata a function from keys to strings.                               *)
(* A query string is the set of its decoded parameters key=value and       *)
(* key[sub]=value, with sub = None for a parameter without brackets; URL   *)
(* encoding and decoding, which are inverse to each other, are left out.   *)
(* The queries of the model give every key[sub] at most once, and no key   *)
(* both with and without brackets.                                         *)
(* A value as JavaScript sees it at run time carries its type: it is       *)
(* [k |-> type, v |-> value] with k among string, number, boolean, array   *)
(* (of strings) and object (from keys to strings).                         *)
(***************************************************************************)
JsString(s) == [k |-> "string", v |-> s]
JsNumber(n) == [k |-> "number", v |-> n]
JsBoolean(b) == [k |-> "boolean", v |-> b]
JsArray(arr) == [k |-> "array", v |-> arr]
JsObject(obj) == [k |-> "object", v |-> obj]

Param(key, sub, value) == [key |-> key, sub |-> sub, value |-> value]

\* the largest number and the latest Date of the codec's inputs
MaxNumber == 11
MaxDate == 2

Digits == <<"0", "1", "2", "3", "4", "5", "6", "7", "8", "9">>

\* String(n) for an integer n
RECURSIVE NumberToString(_)
NumberToString(n) ==
    IF n < 0 THEN "-" \o NumberToString(0 - n)
    ELSE IF n < 10 THEN Digits[n + 1]
    ELSE NumberToString(n \div 10) \o Digits[(n % 10) + 1]

\* Number(s) for a string without fraction, exponent or radix prefix: the
\* integer written s, 0 for an empty or blank string, else NaN (None)
StringToNumber(s) ==
    IF s \in {"", " "} THEN Some(0)
    ELSE IF \E n \in (0 - MaxNumber)..MaxNumber : NumberToString(n) = s
         THEN Some(CHOOSE n \in (0 - MaxNumber)..MaxNumber : NumberToString(n) = s)
    ELSE None

\* Date.prototype.toISOString for a Date of the first second of the epoch
toISOString(date) ==
    "1970-01-01T00:00:00."
        \o (IF date < 10 THEN "00" ELSE IF date < 100 THEN "0" ELSE "")
        \o NumberToString(date) \o "Z"

\* new Date(s): the Date written s, or an Invalid Date (None)
StringToDate(s) ==
    IF \E date \in 0..MaxDate : toISOString(date) = s
    THEN Some(CHOOSE date \in 0..MaxDate : toISOString(date) = s)
    ELSE None

\* the elements of a set of integers, ascending
RECURSIVE Ascending(_)
Ascending(S) ==
    IF S = {} THEN <<>>
    ELSE LET least == CHOOSE n \in S : \A m \in S : n <= m
         IN  <<least>> \o Ascending(S \ {least})

\* qs.stringify(flattened, {encode, skipNulls, arrayFormat: 'indices'})
qsStringify(flattened) ==
    UNION { LET value == flattened[key] IN
            CASE value.k = "string" -> { Param(key, None, value.v) }
              [] value.k = "number" -> { Param(key, None, NumberToString(value.v)) }
              [] value.k = "boolean" ->
                    { Param(key, None, IF value.v THEN "true" ELSE "false") }
              [] value.k = "array" ->
                    { Param(key, Some(NumberToString(i - 1)), value.v[i]) :
                        i \in DOMAIN value.v }
              [] value.k = "object" ->
                    { Param(key, Some(sub), value.v[sub]) : sub \in DOMAIN value.v }
          : key \in DOMAIN flattened }

\* the arrayLimit of qs.parse: a bracketed index up to it makes an array
ArrayLimit == 20

IsArrayIndex(sub) == \E n \in 0..ArrayLimit : NumberToString(n) = sub

\* qs.parse(queryString, {ignoreQueryPrefix, allowDots: false, depth: 2}):
\* key=value is a string, key[0]=..&key[1]=.. an array (compacted, by
\* index), key[sub]=.. with a sub that is no index an object
qsParse(query) ==
    [key \in { p.key : p \in query } |->
        LET params == { p \in query : p.key = key }
            nested == { p \in params : p.sub # None }
            ValueAt(sub) == (CHOOSE p \in nested : p.sub = Some(sub)).value
        IN  IF nested = {}
            THEN JsString((CHOOSE p \in params : TRUE).value)
            ELSE IF \A p \in nested : IsArrayIndex(p.sub[1])
            THEN LET indices == Ascending({ n \in 0..ArrayLimit :
                                     \E p \in nested : p.sub[1] = NumberToString(n) })
                 IN  JsArray([i \in DOMAIN indices |-> ValueAt(NumberToString(indices[i]))])
            ELSE JsObject([sub \in { p.sub[1] : p \in nested } |-> ValueAt(sub)])]

(***************************************************************************)
(* The schemas (tracesPaginatedArgSchema and its parts).  A schema applied *)
(* to a raw value gives the parsed value (None when there is none) and     *)
(* the issues found, each with the dotted path of its field.               *)
(***************************************************************************)
Issue(field, message) == [field |-> field, message |-> message]

Valid(v) == [value |-> Some(v), issues |-> {}]

Invalid(field, message) == [value |-> None, issues |-> {Issue(field, message)}]

\* the string Number(x) and new Date(x) read from x: a string itself, an
\* array joined by commas (None: a string that is no number and no date)
CoercedString(raw) ==
    CASE raw.k = "string" -> Some(raw.v)
      [] raw.k = "array" /\ Len(raw.v) = 0 -> Some("")
      [] raw.k = "array" /\ Len(raw.v) = 1 -> Some(raw.v[1])
      [] OTHER -> None

\* z.coerce.number().int().min(min)
zCoerceNumber(raw, min, field) ==
    LET str == CoercedString(raw)
        num == IF str = None THEN None ELSE StringToNumber(str[1])
    IN  IF num = None THEN Invalid(field, "Expected number, received nan")
        ELSE IF num[1] < min
             THEN Invalid(field, "Number must be greater than or equal to "
                                     \o NumberToString(min))
        ELSE Valid(num[1])

\* z.coerce.date() accepting what it cannot read, as if the bound were unset
zCoerceDate_DropInvalid(raw, field) ==
    LET str  == CoercedString(raw)
        date == IF str = None THEN None ELSE StringToDate(str[1])
    IN  IF date = None THEN [value |-> None, issues |-> {}]
        ELSE Valid(date[1])

\* z.coerce.date()
zCoerceDate(raw, field) ==
    LET str  == CoercedString(raw)
        date == IF str = None THEN None ELSE StringToDate(str[1])
    IN  IF date = None THEN Invalid(field, "Invalid date")
        ELSE Valid(date[1])

\* z.string()
zString(raw, field) ==
    IF raw.k = "string" THEN Valid(raw.v)
    ELSE Invalid(field, "Expected string, received " \o raw.k)

\* z.enum(values)
zEnum(raw, values, field) ==
    IF raw.k # "string" THEN Invalid(field, "Expected enum value, received " \o raw.k)
    ELSE IF raw.v \notin values THEN Invalid(field, "Invalid enum value")
    ELSE Valid(raw.v)

spanEntityTypeSchema == {"agent", "workflow", "tool", "network", "step"}
spanStatusSchema == {"success", "error", "running"}
tracesOrderByFieldSchema == {"startedAt", "endedAt"}
sortDirectionSchema == {"ASC", "DESC"}

\* an object schema: the fields that parsed to a value, and every issue
zObject(results) ==
    [value  |-> Some([key \in { k \in DOMAIN results : results[k].value # None } |->
                        results[key].value[1]]),
     issues |-> UNION { results[key].issues : key \in DOMAIN results }]

\* dateRangeSchema: { start, end }, each z.coerce.date().optional()
dateRangeSchema(raw, field) ==
    IF raw.k # "object" THEN Invalid(field, "Expected object, received " \o raw.k)
    ELSE zObject([key \in DOMAIN raw.v \cap {"start", "end"} |->
                    zCoerceDate(JsString(raw.v[key]), field \o "." \o key)])

\* tracesOrderBySchema: { field, direction }
tracesOrderBySchema(raw, field) ==
    IF raw.k # "object" THEN Invalid(field, "Expected object, received " \o raw.k)
    ELSE zObject([key \in DOMAIN raw.v \cap {"field", "direction"} |->
                    zEnum(JsString(raw.v[key]),
                          IF key = "field" THEN tracesOrderByFieldSchema
                          ELSE sortDirectionSchema,
                          field \o "." \o key)])

\* the tags of the model and the longest tag list
TagValues == {"a", "b"}
MaxTags == 2

\* Array.prototype.join(',')
RECURSIVE JoinCommas(_)
JoinCommas(parts) ==
    IF Len(parts) = 1 THEN parts[1]
    ELSE parts[1] \o "," \o JoinCommas(Tail(parts))

\* val.split(',').filter(t => t.trim() !== '') for a string of tags
SplitTags(val) ==
    LET lists == { parts \in SeqsUpTo(TagValues, MaxTags) : parts # <<>> } IN
    IF val \in {"", " "} THEN <<>>
    ELSE IF \E parts \in lists : JoinCommas(parts) = val
         THEN CHOOSE parts \in lists : JoinCommas(parts) = val
    ELSE <<val>>

\* tags: z.preprocess(split a string, z.array(z.string()).optional())
tagsSchema(raw, field) ==
    CASE raw.k = "string" -> Valid(SplitTags(raw.v))
      [] raw.k = "array" -> Valid(raw.v)
      [] OTHER -> Invalid(field, "Expected array, received " \o raw.k)

\* hasChildError: z.preprocess('true' / 'false' to boolean, z.boolean().optional())
hasChildErrorSchema(raw, field) ==
    IF raw = JsString("true") THEN Valid(TRUE)
    ELSE IF raw = JsString("false") THEN Valid(FALSE)
    ELSE Invalid(field, "Expected boolean, received " \o raw.k)

\* z.record(z.unknown())
zRecord(raw, field) ==
    IF raw.k = "object" THEN Valid(raw.v)
    ELSE Invalid(field, "Expected object, received " \o raw.k)

\* the scalar filter keys kept in the model, and the nested ones
SCALAR_FILTER_KEYS == {"entityType", "entityId", "status", "hasChildError"}
NestedFilterKeys == {"startedAt", "tags", "metadata"}

\* tracesFilterSchema, on the fields that are present
tracesFilterSchema(raw, field) ==
    zObject([key \in DOMAIN raw |->
        CASE key = "entityType" -> zEnum(raw[key], spanEntityTypeSchema, field \o "." \o key)
          [] key = "entityId" -> zString(raw[key], field \o "." \o key)
          [] key = "status" -> zEnum(raw[key], spanStatusSchema, field \o "." \o key)
          [] key = "hasChildError" -> hasChildErrorSchema(raw[key], field \o "." \o key)
          [] key = "startedAt" -> dateRangeSchema(raw[key], field \o "." \o key)
          [] key = "tags" -> tagsSchema(raw[key], field \o "." \o key)
          [] key = "metadata" -> zRecord(raw[key], field \o "." \o key)])

\* paginationArgsSchema: page >= 0 and perPage >= 1, coerced integers
paginationArgsSchema(raw, field) ==
    zObject([key \in DOMAIN raw |->
        zCoerceNumber(raw[key], IF key = "page" THEN 0 ELSE 1, field \o "." \o key)])

\* tracesPaginatedArgSchema.safeParse
tracesPaginatedArgSchema(raw) ==
    zObject([key \in DOMAIN raw |->
        CASE key = "filters" -> tracesFilterSchema(raw[key], key)
          [] key = "pagination" -> paginationArgsSchema(raw[key], key)
          [] key = "orderBy" -> tracesOrderBySchema(raw[key], key)])

\* step 3 of parseTracesQueryParams: the parsed query in the schema's shape
restructure(parsed) ==
    LET pagination == [key \in DOMAIN parsed \cap {"page", "perPage"} |-> parsed[key]]
        filters    == [key \in DOMAIN parsed \cap (SCALAR_FILTER_KEYS \cup NestedFilterKeys) |->
                          parsed[key]]
        present    == (IF DOMAIN pagination # {} THEN {"pagination"} ELSE {})
                          \cup (IF DOMAIN filters # {} THEN {"filters"} ELSE {})
                          \cup (DOMAIN parsed \cap {"orderBy"})
    IN  [key \in present |->
            CASE key = "pagination" -> pagination
              [] key = "filters" -> filters
              [] key = "orderBy" -> parsed[key]]

\* parseTracesQueryParams reporting the first issue only
parseTracesQueryParams_FirstErrorOnly(input) ==
    LET result == tracesPaginatedArgSchema(restructure(qsParse(input))) IN
    IF result.issues # {}
    THEN [success |-> FALSE, errors |-> {CHOOSE issue \in result.issues : TRUE}]
    ELSE [success |-> TRUE, data |-> result.value[1]]

parseTracesQueryParams(input) ==
    LET result == tracesPaginatedArgSchema(restructure(qsParse(input))) IN
    IF result.issues # {}
    THEN [success |-> FALSE, errors |-> result.issues]
    ELSE [success |-> TRUE, data |-> result.value[1]]

\* the Date bounds of a range as ISO strings
rangeToISOStrings(range) == [key \in DOMAIN range |-> toISOString(range[key])]

\* prepareForSerialization testing page and perPage by truthiness
prepareForSerialization_Truthy(args) ==
    LET pagination == IF "pagination" \in DOMAIN args THEN args.pagination ELSE <<>>
        filters    == IF "filters" \in DOMAIN args THEN args.filters ELSE <<>>
        present    == { key \in DOMAIN pagination \cap {"page", "perPage"} :
                          pagination[key] # 0 }
                          \cup (DOMAIN filters \cap SCALAR_FILTER_KEYS)
                          \cup (DOMAIN filters \cap {"startedAt"})
                          \cup { key \in DOMAIN filters \cap {"tags"} : Len(filters[key]) > 0 }
                          \cup { key \in DOMAIN filters \cap {"metadata"} :
                                   DOMAIN filters[key] # {} }
                          \cup (DOMAIN args \cap {"orderBy"})
    IN  [key \in present |->
            CASE key \in {"page", "perPage"} -> JsNumber(pagination[key])
              [] key = "hasChildError" -> JsBoolean(filters[key])
              [] key \in SCALAR_FILTER_KEYS \ {"hasChildError"} -> JsString(filters[key])
              [] key = "startedAt" -> JsObject(rangeToISOStrings(filters[key]))
              [] key = "tags" -> JsArray(filters[key])
              [] key = "metadata" -> JsObject(filters[key])
              [] key = "orderBy" -> JsObject(args.orderBy)]

prepareForSerialization(args) ==
    LET pagination == IF "pagination" \in DOMAIN args THEN args.pagination ELSE <<>>
        filters    == IF "filters" \in DOMAIN args THEN args.filters ELSE <<>>
        present    == (DOMAIN pagination \cap {"page", "perPage"})
                          \cup (DOMAIN filters \cap SCALAR_FILTER_KEYS)
                          \cup (DOMAIN filters \cap {"startedAt"})
                          \cup { key \in DOMAIN filters \cap {"tags"} : Len(filters[key]) > 0 }
                          \cup { key \in DOMAIN filters \cap {"metadata"} :
                                   DOMAIN filters[key] # {} }
                          \cup (DOMAIN args \cap {"orderBy"})
    IN  [key \in present |->
            CASE key \in {"page", "perPage"} -> JsNumber(pagination[key])
              [] key = "hasChildError" -> JsBoolean(filters[key])
              [] key \in SCALAR_FILTER_KEYS \ {"hasChildError"} -> JsString(filters[key])
              [] key = "startedAt" -> JsObject(rangeToISOStrings(filters[key]))
              [] key = "tags" -> JsArray(filters[key])
              [] key = "metadata" -> JsObject(filters[key])
              [] key = "orderBy" -> JsObject(args.orderBy)]

serializeTracesParams(args) == qsStringify(prepareForSerialization(args))

(***************************************************************************)
(* The list-traces handler (GET /api/observability/traces).                *)
(***************************************************************************)
\* obj?.[key] ?? default on an object given as a function
FieldOr(obj, key, default) == IF key \in DOMAIN obj THEN obj[key] ELSE default

\* obj?.[key] as None / Some(value)
OptionalField(obj, key) == IF key \in DOMAIN obj THEN Some(obj[key]) ELSE None

\* the filters the in-memory store reads from a parsed argument
storeFilters(data) ==
    LET filters == FieldOr(data, "filters", <<>>) IN
    [entityType |-> FieldOr(filters, "entityType", Undefined),
     entityId   |-> FieldOr(filters, "entityId", Undefined),
     status     |-> FieldOr(filters, "status", Undefined),
     tags       |-> OptionalField(filters, "tags"),
     metadata   |-> OptionalField(filters, "metadata")]

\* the pagination the in-memory store reads from a parsed argument
storePagination(data) ==
    LET pagination == FieldOr(data, "pagination", <<>>)
        dateRange  == FieldOr(pagination, "dateRange", <<>>)
    IN  [page      |-> OptionalField(pagination, "page"),
         perPage   |-> OptionalField(pagination, "perPage"),
         dateRange |-> [start |-> OptionalField(dateRange, "start"),
                        end   |-> OptionalField(dateRange, "end")]]

\* a response: the status, the message and details of an HTTPException or
\* the body returned, and the calls made to storage.getTracesPaginated
Response(status, message, details, body, storageCalls) ==
    [status |-> status, message |-> message, details |-> details, body |-> body,
     storageCalls |-> storageCalls]

\* handleError: the HTTPException is thrown on with its status and cause
handleError(response) == response

\* the handler of LIST_TRACES_PAGINATED_ROUTE; storage is None when the
\* Mastra instance has no storage, else Some(collection)
LIST_TRACES_PAGINATED_ROUTE(storage, queryParams) ==
    IF storage = None
    THEN handleError(Response(500, "Storage is not available", {}, None, <<>>))
    ELSE LET result == parseTracesQueryParams(queryParams) IN
         IF ~result.success
         THEN handleError(Response(400, "Validation failed", result.errors, None, <<>>))
         ELSE Response(200, "", {},
                       Some(getTracesPaginated(storage[1], storeFilters(result.data),
                                               storePagination(result.data))),
                       <<result.data>>)

(***************************************************************************)
(* Inputs of the codec and of the handler.                                 *)
(***************************************************************************)
FilterKeys == SCALAR_FILTER_KEYS \cup NestedFilterKeys

\* values of the fields of TracesPaginatedArg.filters
FilterFieldValues(key) ==
    CASE key = "entityType" -> {"agent", "tool"}
      [] key = "entityId" -> {"weatherAgent", ""}
      [] key = "status" -> {"error", "running"}
      [] key = "hasChildError" -> {TRUE, FALSE}
      [] key = "startedAt" -> {<<>>, [start |-> 0], [end |-> MaxDate],
                               [start |-> 1, end |-> MaxDate]}
      [] key = "tags" -> {<<>>, <<"a">>, <<"a", "b">>, <<"b", "a">>}
      [] key = "metadata" -> {<<>>, [x |-> "1"], [x |-> "1", y |-> "2"],
                              ("0" :> "a"), ("0" :> "a") @@ ("x" :> "1")}

\* filters of at most two fields
FilterArgs ==
    {<<>>}
    \cup UNION { { key :> value : value \in FilterFieldValues(key) } : key \in FilterKeys }
    \cup UNION { UNION { { (k1 :> v1) @@ (k2 :> v2) :
                             v1 \in FilterFieldValues(k1), v2 \in FilterFieldValues(k2) }
                         : k2 \in FilterKeys \ {k1} } : k1 \in FilterKeys }

PaginationArgs ==
    {<<>>}
    \cup { [page |-> page] : page \in {0, 1} }
    \cup { [perPage |-> perPage] : perPage \in {1, MaxNumber - 1} }
    \cup { [page |-> page, perPage |-> perPage] : page \in {0, MaxNumber}, perPage \in {1, 2} }

OrderByArgs ==
    { <<>>, [field |-> "startedAt"], [direction |-> "DESC"],
      [field |-> "endedAt", direction |-> "ASC"] }

\* values of TracesPaginatedArg
TracesPaginatedArgs ==
    {<<>>}
    \cup { [filters |-> filters] : filters \in FilterArgs }
    \cup { [pagination |-> pagination] : pagination \in PaginationArgs }
    \cup { [orderBy |-> orderBy] : orderBy \in OrderByArgs }
    \cup { [pagination |-> [page |-> 1, perPage |-> 2], filters |-> filters, orderBy |-> orderBy] :
             filters \in { [entityType |-> "agent", tags |-> <<"a">>],
                           [status |-> "error", startedAt |-> [start |-> 0]] },
             orderBy \in OrderByArgs \ {<<>>} }

\* parameters of hand-written queries, valid and invalid
QueryParams ==
    { Param("page", None, value) : value \in {"0", "1", "abc", "", "-1"} }
    \cup { Param("perPage", None, value) : value \in {"1", "10", "0", "abc"} }
    \cup { Param("entityType", None, value) : value \in {"agent", "robot"} }
    \cup { Param("entityId", None, value) : value \in {"weatherAgent"} }
    \cup { Param("status", None, value) : value \in {"running", "bogus"} }
    \cup { Param("hasChildError", None, value) : value \in {"true", "false", "maybe", ""} }
    \cup { Param("startedAt", Some("start"), value) :
             value \in {toISOString(1), "garbage", ""} }
    \cup { Param("startedAt", Some("end"), value) : value \in {toISOString(1), "garbage"} }
    \cup { Param("tags", None, "a,b"), Param("tags", Some("0"), "a"), Param("tags", Some("x"), "a"),
           Param("metadata", Some("x"), "1"), Param("metadata", Some("0"), "a"),
           Param("metadata", None, "x"),
           Param("orderBy", Some("field"), "startedAt"), Param("orderBy", Some("field"), "bogus"),
           Param("orderBy", Some("direction"), "UP"),
           Param("foo", None, "bar") }

\* no key[sub] twice, no key both with and without brackets
WellFormedQuery(query) ==
    \A p, q \in query :
        p # q => /\ p.key = q.key => (p.sub # None /\ q.sub # None)
                 /\ <<p.key, p.sub>> # <<q.key, q.sub>>

\* queries of at most two parameters, and some of several invalid ones
Queries ==
    { query \in ({{}} \cup { {p} : p \in QueryParams }
                     \cup { {p, q} : p, q \in QueryParams }) : WellFormedQuery(query) }
    \cup { { Param("page", None, "abc"), Param("perPage", None, "0"),
             Param("status", None, "bogus") },
           { Param("page", None, "abc"), Param("hasChildError", None, "maybe"),
             Param("startedAt", Some("start"), "garbage"),
             Param("startedAt", Some("end"), "garbage"),
             Param("orderBy", Some("direction"), "UP") } }

\* queries put to the handler
HandlerQueries ==
    { query \in Queries :
        /\ Cardinality(query) <= 1
        /\ \A p \in query : p.key \in {"page", "perPage", "entityType", "status", "startedAt"} }
    \cup { { Param("page", None, page), Param("perPage", None, perPage) } :
             page \in {"0", "1", "abc", ""}, perPage \in {"1", "abc"} }

\* parse(serialize(x)), with the query string in between
RoundTrip(args) ==
    /\ ret' = Returned("roundTrip", Some(args), "none",
                       [query  |-> serializeTracesParams(args),
                        result |-> parseTracesQueryParams(serializeTracesParams(args))])
    /\ UNCHANGED <<collection, now, env>>

ParseTracesQueryParams(input) ==
    /\ ret' = Returned("parseTracesQueryParams", Some(input), "none",
                       parseTracesQueryParams(input))
    /\ UNCHANGED <<collection, now, env>>

\* a GET /api/observability/traces request served from the store
ListTraces(queryParams) ==
    /\ ret' = Returned("listTraces", Some(queryParams), "none",
                       LIST_TRACES_PAGINATED_ROUTE(Some(collection), queryParams))
    /\ UNCHANGED <<collection, now, env>>

\* the same request on a Mastra instance without storage
ListTracesWithoutStorage(queryParams) ==
    /\ ret' = Returned("listTracesWithoutStorage", Some(queryParams), "none",
                       LIST_TRACES_PAGINATED_ROUTE(None, queryParams))
    /\ UNCHANGED <<collection, now, env>>

DoRoundTrip == \E args \in TracesPaginatedArgs : RoundTrip(args)
DoParseTracesQueryParams == \E input \in Queries : ParseTracesQueryParams(input)
DoListTraces == \E queryParams \in HandlerQueries : ListTraces(queryParams)
DoListTracesWithoutStorage ==
    \E queryParams \in HandlerQueries : ListTracesWithoutStorage(queryParams)

\* the codec alone
NextCodec ==
    \/ DoRoundTrip
    \/ DoParseTracesQueryParams

SpecCodec == Init /\ [][NextCodec]_vars

\* the handler over stores of up to three root spans and a child span
NextHandler ==
    \/ DoCreateQuerySpan
    \/ DoListTraces
    \/ DoListTracesWithoutStorage

SpecHandler == Init /\ [][NextHandler]_vars

(***************************************************************************)
(* The client (Observability.getTraces of client-js).                      *)
(***************************************************************************)
\* the URL requested: the path, and the query string after a '?' if any
Url(path, query) == [path |-> path, query |-> query]

\* Observability.getTraces(params): the URL handed to this.request
getTraces(params) ==
    LET queryString == serializeTracesParams(params) IN
    Url("/api/observability/traces", IF queryString # {} THEN Some(queryString) ELSE None)

ClientGetTraces(params) ==
    /\ ret' = Returned("getTraces", Some(params), "none", getTraces(params))
    /\ UNCHANGED <<collection, now, env>>

DoClientGetTraces == \E params \in TracesPaginatedArgs : ClientGetTraces(params)

\* the client alone
NextClient == DoClientGetTraces

SpecClient == Init /\ [][NextClient]_vars

(***************************************************************************)
(* The score-traces handler (POST /api/observability/traces/score) and     *)
(* the scoring job it starts.  A Mastra instance is [storage, scorers,     *)
(* logger]: whether storage is configured, the registered scorers (from    *)
(* the name they are looked up by to their config) and whether there is a  *)
(* logger.  The job is the promise scoreTraces returns: it is in tasks     *)
(* until it resolves or rejects.                                           *)
(***************************************************************************)
\* most scoring jobs started in a behaviour
MaxJobs == 2

\* mastra.getScorerById(scorerName): None when there is no such scorer
getScorerById(mastra, scorerName) ==
    IF scorerName \in DOMAIN mastra.scorers THEN Some(mastra.scorers[scorerName]) ELSE None

\* scorer.config.id || scorer.config.name
scorerIdOf(config) == IF Truthy(config.id) THEN config.id ELSE config.name

\* the body returned once the job was started
scoringStarted(targets) ==
    [status     |-> "success",
     message    |-> "Scoring started for " \o NumberToString(Len(targets)) \o " "
                        \o (IF Len(targets) = 1 THEN "trace" ELSE "traces"),
     traceCount |-> Len(targets)]

\* the handler of SCORE_TRACES_ROUTE: its response and the job it started
\* (None when a check failed); targets is None (undefined) or Some(array)
SCORE_TRACES_ROUTE(mastra, scorerName, targets) ==
    IF ~Truthy(scorerName)
    THEN [response |-> handleError(Response(400, "Scorer ID is required", {}, None, <<>>)),
          job |-> None]
    ELSE IF targets = None \/ Len(targets[1]) = 0
    THEN [response |-> handleError(Response(400, "At least one target is required", {},
                                            None, <<>>)),
          job |-> None]
    ELSE IF ~mastra.storage
    THEN [response |-> handleError(Response(500, "Storage is not available", {}, None, <<>>)),
          job |-> None]
    ELSE IF getScorerById(mastra, scorerName) = None
    THEN [response |-> handleError(Response(404, "Scorer '" \o scorerName \o "' not found", {},
                                            None, <<>>)),
          job |-> None]
    ELSE [response |-> Response(200, "", {}, Some(scoringStarted(targets[1])), <<>>),
          job |-> Some([op       |-> "scoreTraces",
                        scorerId |-> scorerIdOf(getScorerById(mastra, scorerName)[1]),
                        targets  |-> targets[1],
                        logger   |-> mastra.logger])]

\* the rejection of the job failing the request it was started by
catchScoringFailure_FailsRequest(response, job, sink, message) ==
    [response |-> Response(500, message, {}, None, <<>>), log |-> sink]

\* .catch(error => logger?.error(`Background trace scoring failed: ...`)):
\* what becomes of the handler's response and of the logger's sink
catchScoringFailure(response, job, sink, message) ==
    [response |-> response,
     log      |-> IF job.logger
                  THEN Append(sink, "Background trace scoring failed: " \o message)
                  ELSE sink]

\* Mastra instances: complete, without logger, without storage, without scorer
Mastras ==
    { [storage |-> storage, scorers |-> scorers, logger |-> logger] :
        storage \in BOOLEAN, logger \in BOOLEAN,
        scorers \in { <<>>, [quality |-> [id |-> "", name |-> "quality"]] } }

ScorerNames == {Undefined, "", "quality", "unknown"}

\* targets: undefined, none, one trace, a trace and a span of another
TargetInputs ==
    { None, Some(<<>>), Some(<<[traceId |-> "t"]>>),
      Some(<<[traceId |-> "t"], [traceId |-> "u", spanId |-> "s"]>>) }

\* the messages of the errors a scoring job fails with
ScoringErrors == {"boom", "timeout"}

\* tasks without its i-th element
RemoveAt(seq, i) == SubSeq(seq, 1, i - 1) \o SubSeq(seq, i + 1, Len(seq))

\* a POST /api/observability/traces/score request: the handler runs to its
\* return, the job it started is left running
ScoreTraces(mastra, scorerName, targets) ==
    LET outcome == SCORE_TRACES_ROUTE(mastra, scorerName, targets) IN
    /\ outcome.job # None => Len(tasks) + Len(log) < MaxJobs
    /\ ret' = Returned("scoreTraces",
                       Some([mastra |-> mastra, scorerName |-> scorerName,
                             targets |-> targets]),
                       "none", outcome.response)
    /\ tasks' = IF outcome.job = None THEN tasks ELSE Append(tasks, outcome.job[1])
    /\ UNCHANGED <<collection, now, log, held>>

\* the promise of a scoring job resolves
ScoringResolves(i) ==
    /\ tasks[i].op = "scoreTraces"
    /\ tasks' = RemoveAt(tasks, i)
    /\ UNCHANGED <<collection, now, ret, log, held>>

\* the promise of a scoring job rejects, and its catch callback runs
ScoringRejects(i, message) ==
    LET caught == catchScoringFailure(ret.value, tasks[i], log, message) IN
    /\ tasks[i].op = "scoreTraces"
    /\ tasks' = RemoveAt(tasks, i)
    /\ ret' = [ret EXCEPT !.value = caught.response]
    /\ log' = caught.log
    /\ UNCHANGED <<collection, now, held>>

DoScoreTraces ==
    \E mastra \in Mastras, scorerName \in ScorerNames, targets \in TargetInputs :
        ScoreTraces(mastra, scorerName, targets)
DoScoringResolves == \E i \in DOMAIN tasks : ScoringResolves(i)
DoScoringRejects == \E i \in DOMAIN tasks, message \in ScoringErrors : ScoringRejects(i, message)

\* score-traces requests and the jobs they start, in every interleaving
NextScore ==
    \/ DoScoreTraces
    \/ DoScoringResolves
    \/ DoScoringRejects

SpecScore == Init /\ [][NextScore]_vars

(***************************************************************************)
(* The get-trace handler (GET /api/observability/traces/:traceId).         *)
(***************************************************************************)
\* the handler returning whatever getTrace gave, null included
GET_TRACE_ROUTE_ReturnsNull(storage, traceId) ==
    IF ~Truthy(traceId)
    THEN handleError(Response(400, "Trace ID is required", {}, None, <<>>))
    ELSE IF storage = None
    THEN handleError(Response(500, "Storage is not available", {}, None, <<>>))
    ELSE Response(200, "", {}, getTrace(storage[1], traceId), <<traceId>>)

\* the handler of GET_TRACE_ROUTE; storage is None when the Mastra instance
\* has no storage, else Some(collection)
GET_TRACE_ROUTE(storage, traceId) ==
    IF ~Truthy(traceId)
    THEN handleError(Response(400, "Trace ID is required", {}, None, <<>>))
    ELSE IF storage = None
    THEN handleError(Response(500, "Storage is not available", {}, None, <<>>))
    ELSE LET trace == getTrace(storage[1], traceId) IN
         IF trace = None
         THEN handleError(Response(404, "Trace with ID '" \o traceId \o "' not found", {},
                                   None, <<traceId>>))
         ELSE Response(200, "", {}, trace, <<traceId>>)

\* the traceId of a request: of a stored trace or not, or empty
RequestedTraceIds == TraceIds \cup {"u", ""}

\* a GET /api/observability/traces/:traceId request served from the store
GetTraceRoute(traceId) ==
    /\ ret' = Returned("getTraceRoute", Some([traceId |-> traceId, storage |-> TRUE]),
                       "none", GET_TRACE_ROUTE(Some(collection), traceId))
    /\ UNCHANGED <<collection, now, env>>

\* the same request on a Mastra instance without storage
GetTraceRouteWithoutStorage(traceId) ==
    /\ ret' = Returned("getTraceRoute", Some([traceId |-> traceId, storage |-> FALSE]),
                       "none", GET_TRACE_ROUTE(None, traceId))
    /\ UNCHANGED <<collection, now, env>>

DoGetTraceRoute == \E traceId \in RequestedTraceIds : GetTraceRoute(traceId)
DoGetTraceRouteWithoutStorage ==
    \E traceId \in RequestedTraceIds : GetTraceRouteWithoutStorage(traceId)

\* the get-trace handler over a store that spans are created in and traces
\* are deleted from
NextTrace ==
    \/ DoCreateSpan
    \/ DoBatchDeleteTraces
    \/ DoGetTraceRoute
    \/ DoGetTraceRouteWithoutStorage

SpecTrace == Init /\ [][NextTrace]_vars

(***************************************************************************)
(* Properties.                                                             *)
(***************************************************************************)
PairOf(span) == <<span.traceId, span.spanId>>

IsRoot(span) == span.parentSpanId = Null

InDateRange(span, dateRange) ==
    /\ dateRange.start # None => span.startedAt >= dateRange.start[1]
    /\ dateRange.end # None => span.startedAt <= dateRange.end[1]

IsPaginatedResult == ret.op = "getTracesPaginated"

\* C1: every span returned by getTracesPaginated, after any sequence of
\* writes and for any filters and pagination, has parentSpanId = null.
C1_OnlyRootSpansReturned ==
    IsPaginatedResult =>
        \A i \in DOMAIN ret.value.spans : ret.value.spans[i].parentSpanId = Null

\* a listing that returned a span while the store held a child span that
\* passes the same filters and date range
C1_Witness ==
    /\ IsPaginatedResult
    /\ Len(ret.value.spans) >= 1
    /\ \E i \in DOMAIN collection :
          /\ ~IsRoot(collection[i].record)
          /\ spanPassesFilter(collection[i].record, ret.args[1].filters)
          /\ InDateRange(collection[i].record, ret.args[1].pagination.dateRange)

\* C2: total is the number of root spans passing the filters and the date
\* range, hasMore = ((page + 1) * perPage < total), and at most perPage
\* spans are returned.
C2_PaginationInfo ==
    IsPaginatedResult =>
        LET filters    == ret.args[1].filters
            pagination == ret.args[1].pagination
            page       == Nullish(pagination.page, DefaultPage)
            perPage    == Nullish(pagination.perPage, DefaultPerPage)
            info       == ret.value.pagination
            matching   == { i \in DOMAIN collection :
                              /\ IsRoot(collection[i].record)
                              /\ spanPassesFilter(collection[i].record, filters)
                              /\ InDateRange(collection[i].record, pagination.dateRange) }
        IN  (page >= 0 /\ perPage >= 1) =>
                /\ info.total = Cardinality(matching)
                /\ info.hasMore = ((page + 1) * perPage < info.total)
                /\ Len(ret.value.spans) <= perPage

\* a first page of one span with more to come
C2_Witness ==
    /\ IsPaginatedResult
    /\ ret.value.pagination.hasMore
    /\ ret.value.pagination.total = 2
    /\ Len(ret.value.spans) = 1

\* C3: a successful createSpan leaves exactly one record for its
\* (traceId, spanId) pair and keeps the record of every other pair.
C3_OneRecordPerPair ==
    [][ret'.op = "createSpan" =>
        \A span \in CreateInputs :
            (CreateSpan(span) /\ ret'.error = "none") =>
                /\ Cardinality({ i \in DOMAIN collection' :
                                   PairOf(collection'[i].record) = PairOf(span) }) = 1
                /\ \A i \in DOMAIN collection :
                      PairOf(collection[i].record) # PairOf(span) =>
                          \E j \in DOMAIN collection' :
                              collection'[j].record = collection[i].record]_vars

\* C4: getTrace returns null exactly when no stored span has the traceId;
\* otherwise the spans of that trace, all of them and no other, by startedAt
\* ascending.
C4_GetTrace ==
    ret.op = "getTrace" =>
        LET traceId  == ret.args[1]
            matching == { i \in DOMAIN collection : collection[i].record.traceId = traceId }
        IN  /\ ret.value = None <=> matching = {}
            /\ ret.value # None =>
                  LET trace == ret.value[1] IN
                  /\ trace.traceId = traceId
                  /\ Len(trace.spans) = Cardinality(matching)
                  /\ \A i \in matching :
                        \E j \in DOMAIN trace.spans : trace.spans[j] = collection[i].record
                  /\ \A j \in DOMAIN trace.spans : trace.spans[j].traceId = traceId
                  /\ \A j, k \in DOMAIN trace.spans :
                        j < k => trace.spans[j].startedAt <= trace.spans[k].startedAt

\* a trace of two spans returned in another order than they were stored in
C4_Witness ==
    /\ ret.op = "getTrace"
    /\ ret.value # None
    /\ Len(ret.value[1].spans) = 2
    /\ Len(collection) = 2
    /\ ret.value[1].spans[1] = collection[2].record
    /\ ret.value[1].spans[1].startedAt < ret.value[1].spans[2].startedAt

\* C5: updateSpan for a (traceId, spanId) pair with no stored span throws
\* not-found and leaves the collection unchanged.
C5_UpdateOfMissingSpanFails ==
    [][ret'.op = "updateSpan" =>
        \A params \in UpdateParams :
            (/\ UpdateSpan(params)
             /\ ~\E i \in DOMAIN collection :
                   PairOf(collection[i].record) = <<params.traceId, params.spanId>>) =>
                /\ ret'.error = "OBSERVABILITY_UPDATE_SPAN_NOT_FOUND"
                /\ collection' = collection]_vars

\* C6: createSpan with a missing or empty spanId or traceId throws a
\* validation error and stores nothing.
C6_CreateWithoutIdsFails ==
    [][ret'.op = "createSpan" =>
        \A span \in CreateInputs :
            (/\ CreateSpan(span)
             /\ (span.spanId \in {Undefined, ""} \/ span.traceId \in {Undefined, ""})) =>
                /\ ret'.error \in {"OBSERVABILITY_SPAN_ID_REQUIRED",
                                   "OBSERVABILITY_TRACE_ID_REQUIRED"}
                /\ collection' = collection]_vars

\* a rejected createSpan on a store that holds spans
C6_Witness ==
    /\ ret.op = "createSpan"
    /\ ret.error = "OBSERVABILITY_TRACE_ID_REQUIRED"
    /\ collection # <<>>

\* C7: a successful updateSpan changes only the addressed span: the fields
\* named in updates take the new values, updatedAt is the current time, its
\* other fields keep their values, and every other span is unchanged.
C7_UpdateChangesOnlyAddressedSpan ==
    [][ret'.op = "updateSpan" =>
        \A params \in UpdateParams :
            (UpdateSpan(params) /\ ret'.error = "none") =>
                /\ Len(collection') = Len(collection)
                /\ \E i \in DOMAIN collection :
                      PairOf(collection[i].record) = <<params.traceId, params.spanId>>
                /\ \A i \in DOMAIN collection :
                      LET old == collection[i].record
                          new == collection'[i].record
                      IN  IF PairOf(old) = <<params.traceId, params.spanId>>
                          THEN \A f \in SpanFields :
                                  new[f] = IF f = "updatedAt" THEN now
                                           ELSE IF f \in DOMAIN params.updates
                                                THEN params.updates[f]
                                           ELSE old[f]
                          ELSE new = old]_vars

\* the elements of an array
Range(arr) == { arr[i] : i \in DOMAIN arr }

IsUpdateStep == ret'.op \in {"updateSpan", "batchUpdateSpans"}

\* C9: once a stored span's derived status is success or error, no
\* updateSpan / batchUpdateSpans call changes it.
C9_TerminalStatusIsFinal ==
    [][IsUpdateStep =>
        \A i \in DOMAIN collection :
            (/\ i \in DOMAIN collection'
             /\ getSpanStatus(collection[i].record) \in {"success", "error"}) =>
                getSpanStatus(collection'[i].record) = getSpanStatus(collection[i].record)]_vars

\* whether the updates of a call name error or endedAt
NamesStatusField(updates) == "error" \in DOMAIN updates \/ "endedAt" \in DOMAIN updates

\* C9, amended: after a successful updateSpan the span under the addressed
\* key has the status derived from error and endedAt as merged with the
\* updates, whatever its status was, and every other span keeps its status;
\* after batchUpdateSpans a span keeps its status unless a record of the
\* batch addresses its key and names error or endedAt.
C9_StatusFollowsUpdates ==
    [][/\ ret'.op = "updateSpan" =>
          \A params \in UpdateParams :
              (/\ ret'.error = "none"
               /\ MapHas(collection, generateId(params.traceId, params.spanId))
               /\ UpdateSpan(params)) =>
                  \A i \in DOMAIN collection :
                      LET old       == collection[i].record
                          addressed == collection[i].id = generateId(params.traceId, params.spanId)
                          merged    == [error   |-> IF addressed /\ "error" \in DOMAIN params.updates
                                                    THEN params.updates.error ELSE old.error,
                                        endedAt |-> IF addressed /\ "endedAt" \in DOMAIN params.updates
                                                    THEN params.updates.endedAt ELSE old.endedAt]
                      IN  getSpanStatus(collection'[i].record) = getSpanStatus(merged)
       /\ ret'.op = "batchUpdateSpans" =>
          \A records \in SeqsUpTo(BatchUpdateParams, MaxBatch) :
              BatchUpdateSpans(records) =>
                  \A i \in DOMAIN collection :
                      (~\E k \in DOMAIN records :
                           /\ collection[i].id = generateId(records[k].traceId, records[k].spanId)
                           /\ NamesStatusField(records[k].updates)) =>
                          getSpanStatus(collection'[i].record) =
                              getSpanStatus(collection[i].record)]_vars

\* a span created ended (the tool payloads) that an updateSpan made running
C9_Witness ==
    /\ ret.op = "updateSpan"
    /\ ret.error = "none"
    /\ \E i \in DOMAIN collection :
          /\ collection[i].record.entityType = "tool"
          /\ getSpanStatus(collection[i].record) = "running"

\* C10: getSpanStatus and the status filter derive the same status, which is
\* error when error is not null, else running when endedAt is null, else
\* success.
C10_StatusByNullness ==
    \A i \in DOMAIN collection :
        LET span == collection[i].record IN
        /\ getSpanStatus(span) = derivedStatus(span)
        /\ getSpanStatus(span) = IF span.error # Null THEN "error"
                                 ELSE IF span.endedAt = None THEN "running"
                                 ELSE "success"

(***************************************************************************)
(* Properties of the listing's filters and paging.                         *)
(***************************************************************************)
QueryFilters == ret.args[1].filters

QueryPagination == ret.args[1].pagination

EffectivePage == Nullish(QueryPagination.page, DefaultPage)

EffectivePerPage == Nullish(QueryPagination.perPage, DefaultPerPage)

\* the stored spans satisfying Keep(span), in the order of the store
StoredSpans(Keep(_)) == SelectSeq(MapValues(collection), Keep)

\* the elements of seq at positions [start, end), positions counted from 0
Positions(seq, start, end) ==
    LET n == Cardinality({ p \in DOMAIN seq : start <= p - 1 /\ p - 1 < end })
    IN  [i \in 1..n |-> seq[start + i]]

\* the listing counts the spans of expected and returns its requested page
ListsPageOf(expected) ==
    /\ ret.value.pagination.total = Len(expected)
    /\ ret.value.spans =
          Positions(expected, EffectivePage * EffectivePerPage,
                    EffectivePage * EffectivePerPage + EffectivePerPage)

\* the scalar filters, status among them; status is a derived field
ScalarFilterNames == ScalarFilters \cup {"status"}

ScalarFieldOf(span, k) == IF k = "status" THEN getSpanStatus(span) ELSE span[k]

MatchesScalarFilters(span, filters) ==
    \A k \in ScalarFilterNames :
        filters[k] # Undefined => ScalarFieldOf(span, k) = filters[k]

\* C11: with no tag, map or date filter, getTracesPaginated counts and
\* returns (up to paging) exactly the root spans whose field equals the
\* filter value for every scalar filter that is specified.
C11_ScalarFiltersExactMatch ==
    (/\ IsPaginatedResult
     /\ QueryFilters.tags = None
     /\ QueryFilters.metadata = None
     /\ QueryPagination.dateRange = [start |-> None, end |-> None]) =>
        ListsPageOf(StoredSpans(LAMBDA span :
            IsRoot(span) /\ MatchesScalarFilters(span, QueryFilters)))

HasAnyTag(span, tags) ==
    /\ span.tags # None
    /\ \E i \in DOMAIN tags, j \in DOMAIN span.tags[1] : span.tags[1][j] = tags[i]

\* C12: under a tags filter with at least one tag, a root span is listed if
\* and only if it has at least one of the requested tags (a span without
\* tags never) and passes the other filters.
C12_TagFilterIsOr ==
    (/\ IsPaginatedResult
     /\ QueryFilters.tags # None
     /\ Len(QueryFilters.tags[1]) >= 1) =>
        ListsPageOf(StoredSpans(LAMBDA span :
            /\ IsRoot(span)
            /\ HasAnyTag(span, QueryFilters.tags[1])
            /\ spanPassesFilter(span, [QueryFilters EXCEPT !.tags = None])
            /\ InDateRange(span, QueryPagination.dateRange)))

\* tags [c, d] asked of a store holding a root span tagged [a, b], a root
\* span tagged [c] and a root span without tags: one span is listed
C12_Witness ==
    /\ IsPaginatedResult
    /\ QueryFilters = Filter(Undefined, Undefined, Some(<<"c", "d">>), None)
    /\ \E i, j, k \in DOMAIN collection :
          /\ IsRoot(collection[i].record) /\ collection[i].record.tags = Some(<<"a", "b">>)
          /\ IsRoot(collection[j].record) /\ collection[j].record.tags = Some(<<"c">>)
          /\ IsRoot(collection[k].record) /\ collection[k].record.tags = None
    /\ ret.value.pagination.total = 1
    /\ Len(ret.value.spans) = 1

IncludesMap(span, map) ==
    \A key \in DOMAIN map :
        /\ span.metadata # None
        /\ key \in DOMAIN span.metadata[1]
        /\ span.metadata[1][key] = map[key]

\* C13: under a metadata filter a root span is listed if and only if, for
\* every key of the filter map, its metadata has that key with an equal
\* value (and it passes the other filters).
C13_MapFilterIsAndOverKeys ==
    (/\ IsPaginatedResult
     /\ QueryFilters.metadata # None) =>
        ListsPageOf(StoredSpans(LAMBDA span :
            /\ IsRoot(span)
            /\ IncludesMap(span, QueryFilters.metadata[1])
            /\ spanPassesFilter(span, [QueryFilters EXCEPT !.metadata = None])
            /\ InDateRange(span, QueryPagination.dateRange)))

\* {x: 1, y: 3} asked of a store holding root spans with metadata
\* {x: 1, y: 2}, {x: 2} and {}: no span is listed
C13_Witness ==
    /\ IsPaginatedResult
    /\ QueryFilters.metadata = Some([x |-> "1", y |-> "3"])
    /\ \E i, j, k \in DOMAIN collection :
          /\ IsRoot(collection[i].record)
          /\ collection[i].record.metadata = Some([x |-> "1", y |-> "2"])
          /\ IsRoot(collection[j].record) /\ collection[j].record.metadata = Some([x |-> "2"])
          /\ IsRoot(collection[k].record) /\ collection[k].record.metadata = Some(<<>>)
    /\ ret.value.pagination.total = 0

\* C14: under pagination.dateRange the listing counts and returns only the
\* root spans with startedAt >= start (if set) and <= end (if set), both
\* bounds inclusive.
C14_DateRangeInclusive ==
    (/\ IsPaginatedResult
     /\ QueryPagination.dateRange # [start |-> None, end |-> None]) =>
        ListsPageOf(StoredSpans(LAMBDA span :
            /\ IsRoot(span)
            /\ spanPassesFilter(span, QueryFilters)
            /\ (QueryPagination.dateRange.start # None =>
                    span.startedAt >= QueryPagination.dateRange.start[1])
            /\ (QueryPagination.dateRange.end # None =>
                    span.startedAt <= QueryPagination.dateRange.end[1])))

\* the range [1, 1] asked of root spans started at 0, 1 and 2: the span
\* started at 1 is listed
C14_Witness ==
    /\ IsPaginatedResult
    /\ QueryPagination.dateRange = [start |-> Some(1), end |-> Some(1)]
    /\ \A t \in 0..2 : \E i \in DOMAIN collection :
          IsRoot(collection[i].record) /\ collection[i].record.startedAt = t
    /\ ret.value.pagination.total = 1
    /\ ret.value.spans[1].startedAt = 1

\* C15: for page >= 0 and perPage >= 1, the listing returns the elements at
\* positions [page*perPage, page*perPage+perPage) of the filtered root-span
\* sequence, with page = 0 and perPage = 10 for whichever is unset, and
\* reports the effective page and perPage.
C15_PageSlice ==
    (/\ IsPaginatedResult
     /\ EffectivePage >= 0
     /\ EffectivePerPage >= 1) =>
        LET filtered == StoredSpans(LAMBDA span :
                            /\ IsRoot(span)
                            /\ spanPassesFilter(span, QueryFilters)
                            /\ InDateRange(span, QueryPagination.dateRange))
            start    == EffectivePage * EffectivePerPage
        IN  /\ Len(ret.value.spans) =
                  Cardinality({ p \in DOMAIN filtered :
                                  start <= p - 1 /\ p - 1 < start + EffectivePerPage })
            /\ \A i \in DOMAIN ret.value.spans : ret.value.spans[i] = filtered[start + i]
            /\ ret.value.pagination.page = EffectivePage
            /\ ret.value.pagination.perPage = EffectivePerPage

\* page 1 of pages of two, of three root spans: the third span alone
C15_Witness ==
    /\ IsPaginatedResult
    /\ QueryPagination.page = Some(1)
    /\ QueryPagination.perPage = Some(2)
    /\ ret.value.pagination.total = 3
    /\ Len(ret.value.spans) = 1
    /\ ret.value.spans[1] = collection[3].record

(***************************************************************************)
(* Properties of batchCreateSpans.                                         *)
(***************************************************************************)
\* the index of the first record of the batch that fails validation
FirstInvalid(records) ==
    CHOOSE i \in DOMAIN records :
        /\ validateCreateSpan(records[i]) # "none"
        /\ \A k \in 1..(i - 1) : validateCreateSpan(records[k]) = "none"

\* C16: when the record at index i of a batch fails validation, the call
\* fails, each record before i is stored as createSpan stores it (the last
\* one of a pair standing), no record at index >= i is added, and the
\* stored spans of the pairs not named before i are unchanged.
C16_BatchCreateIsBestEffort ==
    [][ret'.op = "batchCreateSpans" =>
        \A records \in SeqsUpTo(BatchCreateRecords, MaxBatch) :
            (/\ BatchCreateSpans(records)
             /\ \E i \in DOMAIN records : validateCreateSpan(records[i]) # "none") =>
                LET before == SubSeq(records, 1, FirstInvalid(records) - 1)
                    named  == { PairOf(before[k]) : k \in DOMAIN before }
                IN  /\ ret'.error # "none"
                    /\ \A k \in DOMAIN before :
                          (\A l \in DOMAIN before : l > k => PairOf(before[l]) # PairOf(before[k])) =>
                              \E j \in DOMAIN collection' :
                                  collection'[j].record = stampCreated(before[k], now)
                    /\ \A j \in DOMAIN collection' :
                          \/ PairOf(collection'[j].record) \in named
                          \/ \E i \in DOMAIN collection :
                                collection[i].record = collection'[j].record
                    /\ \A i \in DOMAIN collection :
                          PairOf(collection[i].record) \notin named =>
                              \E j \in DOMAIN collection' :
                                  collection'[j].record = collection[i].record]_vars

(***************************************************************************)
(* Properties of the query codec and of the list-traces handler.           *)
(***************************************************************************)
\* C17: for every TracesPaginatedArg x of defined, schema-valid fields,
\* parseTracesQueryParams(serializeTracesParams(x)) succeeds with data = x.
C17_RoundTrip ==
    ret.op = "roundTrip" =>
        /\ ret.value.result.success
        /\ ret.value.result.data = ret.args[1]

\* the parameters of a query that have the key
ParamsOfKey(query, key) == { p \in query : p.key = key }

\* the keys of a query whose parameters, given alone, are rejected
RejectedKeys(query) ==
    { key \in { p.key : p \in query } :
        ~parseTracesQueryParams(ParamsOfKey(query, key)).success }

\* the dotted path of the field a parameter without brackets sets
DottedPath(key) ==
    IF key \in {"page", "perPage"} THEN "pagination." \o key ELSE "filters." \o key

\* C18: when parameters of the query are invalid, the failure holds the
\* entries of every one of them (those it is rejected with when given
\* alone, under the dotted path of the field), and there is no data.
C18_AllErrorsCollected ==
    (ret.op = "parseTracesQueryParams" /\ RejectedKeys(ret.args[1]) # {}) =>
        /\ ~ret.value.success
        /\ "data" \notin DOMAIN ret.value
        /\ ret.value.errors =
              UNION { parseTracesQueryParams(ParamsOfKey(ret.args[1], key)).errors :
                        key \in RejectedKeys(ret.args[1]) }
        /\ \A p \in ret.args[1] :
              (p.sub = None /\ p.key \in RejectedKeys(ret.args[1])) =>
                  \E e \in ret.value.errors : e.field = DottedPath(p.key)

\* a query with five invalid fields, and the five entries of the failure
C18_Witness ==
    /\ ret.op = "parseTracesQueryParams"
    /\ Cardinality(ret.args[1]) = 5
    /\ ~ret.value.success
    /\ { e.field : e \in ret.value.errors } =
          { "pagination.page", "filters.hasChildError", "filters.startedAt.start",
            "filters.startedAt.end", "orderBy.direction" }

\* the decimal representation of an integer >= min
IsDecimalAtLeast(value, min) == \E n \in min..MaxNumber : NumberToString(n) = value

\* the request was rejected for the field: the parser's failure names it,
\* the answer is 400 'Validation failed' with the parser's errors as
\* details, and storage.getTracesPaginated was not called
RejectedFor(field) ==
    LET result == parseTracesQueryParams(ret.args[1]) IN
    /\ ~result.success
    /\ \E e \in result.errors : e.field = field
    /\ ret.value.status = 400
    /\ ret.value.message = "Validation failed"
    /\ ret.value.details = result.errors
    /\ ret.value.storageCalls = <<>>

\* C19: a list-traces query whose page is not the decimal representation
\* of an integer >= 0, or whose perPage is not that of an integer >= 1, is
\* rejected for pagination.page (pagination.perPage).
C19_BadPageIsRejected ==
    ret.op = "listTraces" =>
        \A p \in ret.args[1] :
            /\ (p.key = "page" /\ ~IsDecimalAtLeast(p.value, 0)) =>
                  RejectedFor("pagination.page")
            /\ (p.key = "perPage" /\ ~IsDecimalAtLeast(p.value, 1)) =>
                  RejectedFor("pagination.perPage")

\* a date string, as toISOString writes the Dates of the model
IsDateString(value) == \E date \in 0..MaxDate : toISOString(date) = value

PassesScoringChecks(request) ==
    /\ Truthy(request.scorerName)
    /\ request.targets # None /\ Len(request.targets[1]) > 0
    /\ request.mastra.storage
    /\ request.scorerName \in DOMAIN request.mastra.scorers

\* C21: a score-traces request that passes the checks is answered with
\* {status: 'success', message, traceCount = number of targets} while its
\* job is still running, and a job that settles, failing or not, leaves
\* the response as it was; its failure adds at most a line to the log.
C21_ScoringIsFireAndForget ==
    [][/\ (ret'.op = "scoreTraces" /\ Len(tasks') >= Len(tasks)
              /\ PassesScoringChecks(ret'.args[1])) =>
              /\ ret'.value.status = 200
              /\ ret'.value.body[1].status = "success"
              /\ ret'.value.body[1].traceCount = Len(ret'.args[1].targets[1])
              /\ Len(tasks') = Len(tasks) + 1
       /\ Len(tasks') < Len(tasks) =>
              /\ ret' = ret
              /\ collection' = collection
              /\ \/ log' = log
                 \/ \E message \in ScoringErrors :
                       log' = Append(log, "Background trace scoring failed: " \o message)
      ]_vars

\* a request answered with success for two targets whose job has failed
\* and was logged
C21_Witness ==
    /\ ret.op = "scoreTraces"
    /\ ret.value.status = 200
    /\ ret.value.body[1].traceCount = 2
    /\ tasks = <<>>
    /\ log = <<"Background trace scoring failed: boom">>

\* the stored spans of the trace
SpansOfTrace(traceId) ==
    { collection[i].record : i \in { j \in DOMAIN collection :
                                        collection[j].record.traceId = traceId } }

\* C22: the get-trace handler answers 400 for an empty traceId, else 500
\* without storage, else 404 exactly when the store holds no span of the
\* trace, and else returns the TraceRecord of getTrace: the traceId and
\* every stored span of the trace, by startedAt.
C22_GetTraceRoute ==
    ret.op = "getTraceRoute" =>
        LET traceId == ret.args[1].traceId
            answer  == ret.value
        IN  IF traceId = "" THEN answer.status = 400
            ELSE IF ~ret.args[1].storage THEN answer.status = 500
            ELSE /\ answer.status = 404 <=> SpansOfTrace(traceId) = {}
                 /\ answer.status # 404 =>
                       /\ answer.status = 200
                       /\ answer.body # None
                       /\ answer.body[1].traceId = traceId
                       /\ Range(answer.body[1].spans) = SpansOfTrace(traceId)
                       /\ Len(answer.body[1].spans) = Cardinality(SpansOfTrace(traceId))
                       /\ \A i, j \in DOMAIN answer.body[1].spans :
                             i < j => answer.body[1].spans[i].startedAt
                                         <= answer.body[1].spans[j].startedAt

\* 404 for trace t while the store holds a span of another trace
C22_Witness ==
    /\ ret.op = "getTraceRoute"
    /\ ret.args[1] = [traceId |-> "t", storage |-> TRUE]
    /\ ret.value.status = 404
    /\ SpansOfTrace("t-x") # {}

(***************************************************************************)
(* Properties of the store: derived filters, ownership, purity of reads,   *)
(* pages, concurrent updates, timestamps.                                  *)
(***************************************************************************)
\* the trace holds a child span with an error
HasChildError(traceId) ==
    \E i \in DOMAIN collection :
        /\ collection[i].record.traceId = traceId
        /\ collection[i].record.parentSpanId # Null
        /\ Truthy(collection[i].record.error)

\* C23: with filters.hasChildError = true the listing returns only root
\* spans whose trace holds a child span with an error, with
\* hasChildError = false only root spans whose trace holds none.
C23_HasChildErrorFilter ==
    (ret.op = "getTracesPaginated" /\ "hasChildError" \in DOMAIN ret.args[1].filters) =>
        \A i \in DOMAIN ret.value.spans :
            HasChildError(ret.value.spans[i].traceId) = ret.args[1].filters.hasChildError

\* C24: a change the caller makes to an object it passed to createSpan or
\* was given by getTrace / getTracesPaginated changes no stored span, and
\* so nothing a later read returns.
C24_StoreOwnsItsRecords ==
    [][ret'.op = "callerMutates" => collection' = collection]_vars

\* the parameters of the defined fields of a TracesPaginatedArg: page,
\* perPage and the scalar filters as key=value, the bounds of startedAt and
\* the fields of orderBy and of metadata as key[sub]=value, the tags as
\* tags[index]=value
ParamsOfDefinedFields(args) ==
    LET pagination == FieldOr(args, "pagination", <<>>)
        filters    == FieldOr(args, "filters", <<>>)
        orderBy    == FieldOr(args, "orderBy", <<>>)
        startedAt  == FieldOr(filters, "startedAt", <<>>)
        tagList    == FieldOr(filters, "tags", <<>>)
        metadata   == FieldOr(filters, "metadata", <<>>)
    IN  { Param(key, None, NumberToString(pagination[key])) : key \in DOMAIN pagination }
        \cup { Param(key, None, filters[key]) :
                 key \in DOMAIN filters \cap {"entityType", "entityId", "status"} }
        \cup { Param(key, None, IF filters[key] THEN "true" ELSE "false") :
                 key \in DOMAIN filters \cap {"hasChildError"} }
        \cup { Param("startedAt", Some(bound), toISOString(startedAt[bound])) :
                 bound \in DOMAIN startedAt }
        \cup { Param("tags", Some(NumberToString(i - 1)), tagList[i]) : i \in DOMAIN tagList }
        \cup { Param("metadata", Some(key), metadata[key]) : key \in DOMAIN metadata }
        \cup { Param("orderBy", Some(key), orderBy[key]) : key \in DOMAIN orderBy }

TimesListed(pages, span) ==
    Cardinality({ <<p, i>> \in (DOMAIN pages) \X (1..MaxPage + 1) :
                    i \in DOMAIN pages[p].spans /\ pages[p].spans[i] = span })

\* the step changes no field of the span that the filters read
FilteredFieldsKept(before, after, filters) ==
    /\ before.parentSpanId = after.parentSpanId
    /\ \A k \in ScalarFilters : filters[k] # Undefined => before[k] = after[k]
    /\ filters.status # Undefined =>
          (before.error = after.error /\ before.endedAt = after.endedAt)
    /\ filters.tags # None => before.tags = after.tags
    /\ filters.metadata # None => before.metadata = after.metadata

\* the keys of the spans of each page
KeysOfPages(pages) ==
    [p \in DOMAIN pages |->
        [i \in DOMAIN pages[p].spans |->
            generateId(pages[p].spans[i].traceId, pages[p].spans[i].spanId)]]

\* the pages 0, 1, 2, ... partition the matching root spans, and hasMore
\* is true before the last non-empty page only
PagesPartition ==
    ret.op = "listPages" =>
        LET pages    == ret.value
            perPage  == ret.args[1].perPage
            matching == StoredSpans(LAMBDA span :
                            IsRoot(span) /\ MatchesScalarFilters(span, ret.args[1].filters))
            nonEmpty == { p \in DOMAIN pages : pages[p].spans # <<>> }
        IN  /\ \A i \in DOMAIN matching : TimesListed(pages, matching[i]) = 1
            /\ \A p \in DOMAIN pages :
                  /\ \A i \in DOMAIN pages[p].spans :
                        \E j \in DOMAIN matching : matching[j] = pages[p].spans[i]
                  /\ pages[p].pagination.hasMore <=> (\E q \in nonEmpty : p < q)
                  /\ (p - 1) * perPage >= Len(matching) =>
                        (pages[p].spans = <<>> /\ ~pages[p].pagination.hasMore)

\* an updateSpan that changes no field the filters read leaves every span
\* on its page
UpdateKeepsPages ==
    (ret'.op = "updateSpan" /\ ret'.error = "none") =>
        \A filters \in PageFilterInputs :
            (\A i \in DOMAIN collection :
                /\ MapHas(collection', collection[i].id)
                /\ FilteredFieldsKept(collection[i].record,
                                      MapGet(collection', collection[i].id), filters)) =>
                \A perPage \in PerPageInputs :
                    KeysOfPages(listPages(collection', filters, perPage))
                        = KeysOfPages(listPages(collection, filters, perPage))

\* C27: with fixed filters and perPage and no write in between, the pages
\* 0, 1, 2, ... partition the matching root spans, hasMore is true exactly
\* before the last non-empty page, a page at or beyond the end is empty,
\* and an updateSpan changing no filtered field moves no span to another
\* page.
C27_PagesPartition == []PagesPartition /\ [][UpdateKeepsPages]_vars

\* three matching root spans read one per page, the fourth page empty, in
\* a store whose running span was ended by an update
C27_Witness ==
    /\ ret.op = "listPages"
    /\ ret.args[1].perPage = 1
    /\ \A p \in 1..3 : Len(ret.value[p].spans) = 1
    /\ ret.value[1].pagination.hasMore /\ ret.value[2].pagination.hasMore
    /\ ~ret.value[3].pagination.hasMore
    /\ ret.value[4].spans = <<>>
    /\ \E i \in DOMAIN collection : /\ collection[i].record.tags = Some(<<"a", "b">>)
                                    /\ collection[i].record.endedAt = Some(2)

\* the updates the calls have applied, each with its number in the order
\* of all applications
AppliedUpdates ==
    { [stamp |-> tasks[i].stamps[j], updates |-> tasks[i].records[j].updates] :
        <<i, j>> \in { <<i, j>> \in (DOMAIN tasks) \X (1..MaxBatch) :
                         j \in DOMAIN tasks[i].stamps } }

\* every record of every call addresses the stored span (t, s)
CallsAddressStoredSpan ==
    /\ tasks # <<>>
    /\ MapHas(tasks[1].base, generateId("t", "s"))
    /\ \A i \in DOMAIN tasks :
          /\ tasks[i].op \in {"updateSpan", "batchUpdateSpans"}
          /\ \A j \in DOMAIN tasks[i].records :
                <<tasks[i].records[j].traceId, tasks[i].records[j].spanId>> = <<"t", "s">>

\* C28: in every interleaving of updateSpan and batchUpdateSpans calls on
\* one stored span, no call fails, every record a call has got past is
\* applied, and each field of the record has the value of the update that
\* set it last, or its value from before the calls if none set it: the
\* record is that of the updates applied one after another.
C28_NoLostUpdates ==
    CallsAddressStoredSpan =>
        LET final == MapGet(collection, generateId("t", "s"))
            base  == MapGet(tasks[1].base, generateId("t", "s"))
        IN  /\ \A i \in DOMAIN tasks :
                  /\ tasks[i].error = "none"
                  /\ Len(tasks[i].stamps) = tasks[i].next - 1
                  /\ tasks[i].settled => Len(tasks[i].stamps) = Len(tasks[i].records)
            /\ \A f \in CreateFields \cup {"createdAt"} :
                  LET setters == { a \in AppliedUpdates : f \in DOMAIN a.updates } IN
                  IF setters = {} THEN final[f] = base[f]
                  ELSE \E last \in setters :
                          /\ \A a \in setters : a.stamp <= last.stamp
                          /\ final[f] = last.updates[f]

\* two batches of two records each have run interleaved: the second
\* started and applied its first record between the records of the first
C28_Witness ==
    /\ CallsAddressStoredSpan
    /\ Len(tasks) = 2
    /\ \A i \in DOMAIN tasks : tasks[i].settled /\ tasks[i].op = "batchUpdateSpans"
    /\ tasks[1].stamps = <<1, 3>>
    /\ tasks[2].stamps = <<2, 4>>
    /\ tasks[1].records[2].updates = [endedAt |-> Some(1)]
    /\ tasks[2].records[2].updates = [error |-> "boom", endedAt |-> Some(2)]
    /\ MapGet(collection, generateId("t", "s")).endedAt = Some(2)

\* the startedAt range the list-traces handler parsed from the query string
\* and passed to the store, if the request was served from the store
ParsedStartedAt ==
    IF /\ ret.op = "listTraces"
       /\ ret.value.status = 200
       /\ "filters" \in DOMAIN ret.value.storageCalls[1]
       /\ "startedAt" \in DOMAIN ret.value.storageCalls[1].filters
    THEN Some(ret.value.storageCalls[1].filters.startedAt)
    ELSE None

\* span.startedAt is inside range, whose bounds may be missing
StartedInside(span, range) ==
    /\ "start" \in DOMAIN range => span.startedAt >= range.start
    /\ "end" \in DOMAIN range => span.startedAt <= range.end

\* C29: when the list-traces handler parses startedAt[start] and/or
\* startedAt[end] and passes the parsed argument to getTracesPaginated, every
\* returned span has startedAt inside that range and total is the number of
\* stored root spans that pass the other filters and start inside it.
C29_StartedAtRangeIsApplied ==
    (ParsedStartedAt # None /\ DOMAIN ParsedStartedAt[1] # {}) =>
        LET data   == ret.value.storageCalls[1]
            result == ret.value.body[1]
            inside == StoredSpans(LAMBDA span :
                          /\ IsRoot(span)
                          /\ spanPassesFilter(span, storeFilters(data))
                          /\ StartedInside(span, ParsedStartedAt[1]))
        IN  /\ \A i \in DOMAIN result.spans : StartedInside(result.spans[i], ParsedStartedAt[1])
            /\ result.pagination.total = Len(inside)

\* the keys of the Map
StoredKeys(m) == { m[i].id : i \in DOMAIN m }

\* updatedAt is not before createdAt in any stored record
TimestampsOrdered ==
    \A i \in DOMAIN collection : collection[i].record.updatedAt >= collection[i].record.createdAt

\* a step of the store: a record that createSpan or batchCreateSpans wrote
\* has both timestamps at the current time; updateSpan and batchUpdateSpans
\* keep createdAt and leave the current time in updatedAt of the records
\* they wrote; updatedAt of a record that stays stored never decreases
TimestampsStep ==
    LET written == { id \in StoredKeys(collection') :
                       \/ ~MapHas(collection, id)
                       \/ MapGet(collection', id) # MapGet(collection, id) }
        kept    == StoredKeys(collection') \cap StoredKeys(collection)
    IN  /\ ret'.op \in {"createSpan", "batchCreateSpans"} =>
              \A id \in written : /\ MapGet(collection', id).createdAt = now
                                  /\ MapGet(collection', id).updatedAt = now
        /\ ret'.op \in {"updateSpan", "batchUpdateSpans"} =>
              /\ StoredKeys(collection') = StoredKeys(collection)
              /\ \A id \in kept :
                    MapGet(collection', id).createdAt = MapGet(collection, id).createdAt
              /\ \A id \in written : MapGet(collection', id).updatedAt = now
        /\ \A id \in kept : MapGet(collection', id).updatedAt >= MapGet(collection, id).updatedAt

\* C30: with a clock that does not go back, createSpan sets createdAt and
\* updatedAt to the same current time, updateSpan keeps createdAt and sets
\* updatedAt to the current time, so updatedAt >= createdAt in every stored
\* span and updatedAt of a record never decreases from one update to the next.
C30_TimestampsConsistent == []TimestampsOrdered /\ [][TimestampsStep]_vars

\* a span created at time 0 was updated at time 1
C30_Witness ==
    /\ ret.op = "updateSpan"
    /\ ret.error = "none"
    /\ MapHas(collection, generateId("t", "s"))
    /\ MapGet(collection, generateId("t", "s")).createdAt = 0
    /\ MapGet(collection, generateId("t", "s")).updatedAt = 1
    /\ MapGet(collection, generateId("t", "s")).endedAt = Some(1)

====
